---- MODULE Spec2Model ----
(***************************************************************************)
(* A model of the FRED question-answering agent: llama_api.py (date repair, *)
(* fallback retrieval, tool orchestration), fred_api.py (the series         *)
(* fetcher) and metrics_computing.py (the time-series analyzer).  The       *)
(* language model and the FRED data source are the environment: every       *)
(* reply they can give is a nondeterministic input.                         *)
(***************************************************************************)
EXTENDS Integers, Sequences, FiniteSets, TLC

VARIABLES
    entry,          \* which function or class the caller invoked
    pc,             \* position of the (single) thread of control
    today,          \* the host clock, as a day ordinal (datetime.today())
    plan,           \* the plan-turn reply of the model, as received
    final_reply,    \* the finalize-turn reply of the model, as received
    extraction,     \* what extract_tool_calls returned
    tool_calls,     \* process_question: extraction['tool_calls']
    idx,            \* execute_tool_calls: index of the tool call being executed
    api_results,    \* execute_tool_calls: results, in order
    series_id,      \* call_fred_api_with_fallback / call_fred_api: argument
    start_date,     \* call_fred_api_with_fallback: local, rewritten by the fallback
    end_date,       \* call_fred_api_with_fallback: argument
    max_retries,    \* call_fred_api_with_fallback: argument (default 1)
    compact_mode,   \* call_fred_api_with_fallback: argument
    attempt,        \* call_fred_api_with_fallback: loop variable
    result,         \* call_fred_api_with_fallback: local `result`
    has_result,     \* whether the local `result` is bound
    given,          \* history: the arguments the fallback was called with
    fetches,        \* history: every call of call_fred_api, in order
    llm_calls,      \* history: number of calls of call_llm
    messages,       \* the tool messages of the finalize-turn conversation
    ret,            \* the value returned to the caller
    exc,            \* the exception that escaped to the caller ("none" if none)
    args,           \* the arguments of a helper function called on its own
    out,            \* what the successive calls of that helper returned
    df              \* TimeSeriesAnalyzer: self.df

vars == <<entry, pc, today, plan, final_reply, extraction, tool_calls, idx, api_results,
          series_id, start_date, end_date, max_retries, compact_mode, attempt,
          result, has_result, given, fetches, llm_calls, messages, ret, exc,
          args, out, df>>

-----------------------------------------------------------------------------
(* Bounds of the model                                                      *)

MaxBudget == 3      \* largest max_retries a direct caller passes
MaxCalls == 3       \* largest number of tool calls in a plan reply
MaxPoints == 14     \* largest number of observations handed to the analyzer

-----------------------------------------------------------------------------
(* Date strings.  A string is modelled by what strptime makes of it:        *)
(*   "iso"    YYYY-MM-DD, zero padded: parses, and strftime prints it back  *)
(*   "loose"  parses to day d but is not what strftime prints (2024-1-5)    *)
(*   "short"  a year below 1000 printed by strftime without padding         *)
(*            (999-06-01): strptime's %Y wants four digits and rejects it   *)
(*   "bad"    any other text; "empty" is ''; "absent" is None / no key      *)
(* d is the proleptic Gregorian ordinal of the day (0001-01-01 is day 1).   *)

DateStr(k, d) == [k |-> k, d |-> d]
Iso(d) == DateStr("iso", d)
Loose(d) == DateStr("loose", d)
BadDate == DateStr("bad", 0)
EmptyDate == DateStr("empty", 0)
AbsentDate == DateStr("absent", 0)

\* Python truthiness of an argument value: None and '' are falsy
Truthy(s) == s.k \notin {"empty", "absent"}

\* datetime.strptime(s, '%Y-%m-%d'): ok = FALSE when it raises
Strptime(s) == [ok |-> s.k \in {"iso", "loose"}, d |-> s.d]

\* dt.strftime('%Y-%m-%d'): years below 1000 (ordinal < 364878) lose their padding
Strftime(d) == DateStr(IF d >= 364878 THEN "iso" ELSE "short", d)

\* timedelta(days=365)
Days365 == 365

\* dt - timedelta(days=n): OverflowError below datetime.min (day 1)
MinusDays(d, n) == [ok |-> d - n >= 1, d |-> d - n]

-----------------------------------------------------------------------------
(* fix_date_parameters (llama_api.py:85-118)                                *)

\* The repair without its rule 2: a same-day pair is printed as it is
fix_date_parameters_same_day_kept(start, end, now) ==
    LET ps == Strptime(start)
        pe == Strptime(end)
        parsed == ps.ok /\ pe.ok
        start_dt == IF parsed THEN ps.d ELSE now - Days365
        end_dt == IF parsed THEN pe.d ELSE now
    IN  IF start_dt > end_dt
        THEN [ok |-> MinusDays(end_dt, Days365).ok,
              start |-> Strftime(MinusDays(end_dt, Days365).d),
              end |-> Strftime(end_dt)]
        ELSE [ok |-> TRUE, start |-> Strftime(start_dt), end |-> Strftime(end_dt)]

\* The repair without its rule 3: an inverted pair is printed as it is
fix_date_parameters_inverted_kept(start, end, now) ==
    LET ps == Strptime(start)
        pe == Strptime(end)
        parsed == ps.ok /\ pe.ok
        start_dt == IF parsed THEN ps.d ELSE now - Days365
        end_dt == IF parsed THEN pe.d ELSE now
    IN  IF start_dt = end_dt
        THEN [ok |-> TRUE, start |-> Strftime(now - Days365), end |-> Strftime(now)]
        ELSE [ok |-> TRUE, start |-> Strftime(start_dt), end |-> Strftime(end_dt)]

\* The repaired pair, or ok = FALSE when end_dt - timedelta(days=365) overflows
\* (the OverflowError is not caught inside fix_date_parameters).
fix_date_parameters(start, end, now) ==
    LET ps == Strptime(start)
        pe == Strptime(end)
        parsed == ps.ok /\ pe.ok
        \* 1. date format check: on any failure both become the default window
        start_dt == IF parsed THEN ps.d ELSE now - Days365
        end_dt == IF parsed THEN pe.d ELSE now
    IN  IF start_dt = end_dt
        THEN \* 2. same day
             [ok |-> TRUE, start |-> Strftime(now - Days365), end |-> Strftime(now)]
        ELSE IF start_dt > end_dt
        THEN \* 3. start > end
             [ok |-> MinusDays(end_dt, Days365).ok,
              start |-> Strftime(MinusDays(end_dt, Days365).d),
              end |-> Strftime(end_dt)]
        ELSE [ok |-> TRUE, start |-> Strftime(start_dt), end |-> Strftime(end_dt)]

-----------------------------------------------------------------------------
(* call_fred_api (fred_api.py:22-72)                                        *)

NoData == << >>
Absent == "absent"

\* load_indicator_metadata(): the series the metadata file knows
indicators_map == [GDP |-> "Gross Domestic Product"]

indicator_name_of(sid) ==
    IF sid \in DOMAIN indicators_map THEN indicators_map[sid] ELSE sid

\* What the data source can do with one request.
\*   kind "unreachable": requests.get raises
\*   kind "response": a status code and a body; json_ok = FALSE is a body that
\*   response.json() cannot decode; has_obs says whether it has 'observations'
HttpResponse(kind, status, json_ok, has_obs, obs) ==
    [kind |-> kind, status |-> status, json_ok |-> json_ok, has_obs |-> has_obs,
     observations |-> obs]
NotContacted == HttpResponse("none", 0, FALSE, FALSE, NoData)
Observations == {NoData, <<"o1", "o2">>}
HttpResponses ==
    {HttpResponse("unreachable", 0, FALSE, FALSE, NoData),
     HttpResponse("response", 500, TRUE, FALSE, NoData),
     HttpResponse("response", 200, FALSE, FALSE, NoData),
     HttpResponse("response", 200, TRUE, FALSE, NoData)}
    \cup {HttpResponse("response", 200, TRUE, TRUE, o) : o \in Observations}

\* What TimeSeriesAnalyzer(...).generate_summary() can do: raise or return.
\* (The call at fred_api.py:50 passes no indicator_name, which
\* generate_summary requires, so with metrics_computing.py:228 as it stands
\* the call always raises; both paths of the try are modelled.)
AnalyticsOutcomes == {"raises", "summary"}

\* compact_mode=False in the signature of generate_summary, the value in
\* force at fred_api.py:50, where the call passes no compact_mode
DefaultCompactMode == FALSE

\* Which of its two dicts generate_summary builds (lines 258 and 275)
SummaryShape(cm) == IF cm THEN "compact" ELSE "detailed"

ResultDict(success, sid, name, data, analysis, error) ==
    [success |-> success, series_id |-> sid, indicator_name |-> name,
     data |-> data, analysis |-> analysis, error |-> error,
     tool_call_id |-> Absent]

ErrorText(status) ==
    IF status = 200 THEN "Failed to fetch: Status 200"
    ELSE "Failed to fetch: Status 500"

FailedResult(status) == ResultDict(FALSE, Absent, Absent, NoData, Absent, ErrorText(status))
Unbound == ResultDict(FALSE, Absent, Absent, NoData, Absent, "<unbound>")

Returned(res) == [exc |-> "none", result |-> res]
Raised(e) == [exc |-> e, result |-> Unbound]

\* call_fred_api with an analytics failure reported as a failed fetch
call_fred_api_masking(sid, start, end, http, an) ==
    IF http.kind = "unreachable" THEN Raised("ConnectionError")
    ELSE IF http.status = 200
    THEN IF ~http.json_ok THEN Raised("JSONDecodeError")
         ELSE IF http.has_obs /\ Len(http.observations) > 0
         THEN IF an = "summary"
              THEN Returned(ResultDict(TRUE, sid, indicator_name_of(sid),
                                       http.observations,
                                       SummaryShape(DefaultCompactMode), Absent))
              ELSE Returned(FailedResult(http.status))
         ELSE Returned(FailedResult(http.status))
    ELSE Returned(FailedResult(http.status))

\* The body of call_fred_api, given the data source's answer http and the
\* analytics outcome an.  The dates only travel in the request.
call_fred_api(sid, start, end, http, an) ==
    IF http.kind = "unreachable" THEN Raised("ConnectionError")          \* line 43
    ELSE IF http.status = 200
    THEN IF ~http.json_ok THEN Raised("JSONDecodeError")                 \* line 46
         ELSE IF http.has_obs /\ Len(http.observations) > 0             \* line 47
         THEN IF an = "summary"
              THEN Returned(ResultDict(TRUE, sid, indicator_name_of(sid),
                                       http.observations,
                                       SummaryShape(DefaultCompactMode), Absent))
              ELSE \* except Exception: raw data, no analysis (lines 59-67)
                   Returned(ResultDict(TRUE, sid, indicator_name_of(sid),
                                       http.observations, Absent, Absent))
         ELSE Returned(FailedResult(http.status))                        \* line 69
    ELSE Returned(FailedResult(http.status))                             \* line 69

\* Whether the answer http takes call_fred_api to the analytics (line 47)
ReachesAnalytics(http) ==
    /\ http.kind = "response"
    /\ http.status = 200
    /\ http.json_ok
    /\ http.has_obs
    /\ Len(http.observations) > 0

\* Every way one call of call_fred_api with positional arguments can end:
\* the data source's answer, what the analytics did ("notrun" when they were
\* not reached) and the outcome of the call.
DirectFetchOutcomes(sid, start, end) ==
    {[http |-> h, an |-> IF ReachesAnalytics(h) THEN an ELSE "notrun",
      out |-> call_fred_api(sid, start, end, h, an)] :
        h \in HttpResponses, an \in AnalyticsOutcomes}

\* The call at llama_api.py:140 passes compact_mode=..., which is not a
\* parameter of call_fred_api as defined at fred_api.py:22: with that
\* definition the call raises TypeError before any request is sent.  The
\* outcomes of the function body are kept as well, so that the controller is
\* checked against every behaviour a fetcher can show.
KeywordFetchOutcomes(sid, start, end, cm) ==
    {[http |-> NotContacted, an |-> "notrun", out |-> Raised("TypeError")]}
    \cup DirectFetchOutcomes(sid, start, end)

FetchRecord(sid, start, end, o, n) ==
    [series_id |-> sid, start |-> start, end |-> end, http |-> o.http,
     an |-> o.an, out |-> o.out, after_llm |-> n]

-----------------------------------------------------------------------------
(* TimeSeriesAnalyzer (metrics_computing.py)                                *)
(* Values are integers below 32 in size, so that no percentage falls on a   *)
(* rounding tie; a percentage is kept in hundredths of a percent.  Dates    *)
(* are numbered.  The float results numpy gives for a division by zero are  *)
(* kept apart from the numbers: inf, -inf, nan.                             *)

Observation(date, value, numeric) ==
    [date |-> date, value |-> value, numeric |-> numeric]

\* df.sort_index(): the rows in the order of their dates
RECURSIVE SortIndex(_)
SortIndex(rows) ==
    IF rows = << >> THEN << >>
    ELSE LET m == CHOOSE i \in 1..Len(rows) :
                      \A j \in 1..Len(rows) : rows[i].date <= rows[j].date
             rest == [j \in 1..(Len(rows) - 1) |-> IF j < m THEN rows[j] ELSE rows[j + 1]]
         IN  <<rows[m]>> \o SortIndex(rest)

\* _parse_json (lines 21-39): ok = FALSE is ValueError("Input data is empty");
\* a value that is not a number (FRED writes ".") becomes NaN and its row is
\* dropped; the rows are sorted by date
parse_json(data) ==
    [ok |-> data # << >>,
     df |-> SortIndex([i \in 1..Len(SelectSeq(data, LAMBDA o : o.numeric)) |->
                 [date |-> SelectSeq(data, LAMBDA o : o.numeric)[i].date,
                  value |-> SelectSeq(data, LAMBDA o : o.numeric)[i].value]])]

\* the nearest integer to n / d (d # 0)
RoundDiv(n, d) ==
    IF d > 0 THEN (2 * n + d) \div (2 * d) ELSE (-2 * n - d) \div (-2 * d)

Num(v) == [kind |-> "num", v |-> v]
None == [kind |-> "none", v |-> 0]

\* numpy's float division by zero: inf, -inf or nan, and a RuntimeWarning
DivideByZero(n) ==
    [kind |-> IF n > 0 THEN "inf" ELSE IF n < 0 THEN "-inf" ELSE "nan", v |-> 0]

\* round(float((to - from) / from * 100), 2), in hundredths
PercentChange(from, to) ==
    IF from = 0 THEN DivideByZero(to - from)
    ELSE Num(RoundDiv(10000 * (to - from), from))

\* calculate_changes (lines 65-80), for a df with at least one row:
\* changes['total']
calculate_changes(d) ==
    [absolute |-> Num(100 * (d[Len(d)].value - d[1].value)),
     percentage |-> PercentChange(d[1].value, d[Len(d)].value),
     from_date |-> d[1].date,
     to_date |-> d[Len(d)].date]

\* The first index at which the value of d is largest (idxmax), smallest (idxmin)
IdxMax(d) ==
    CHOOSE i \in 1..Len(d) :
        /\ \A j \in 1..Len(d) : d[j].value <= d[i].value
        /\ \A j \in 1..(i - 1) : d[j].value < d[i].value
IdxMin(d) ==
    CHOOSE i \in 1..Len(d) :
        /\ \A j \in 1..Len(d) : d[j].value >= d[i].value
        /\ \A j \in 1..(i - 1) : d[j].value > d[i].value

\* calculate_basic_stats (lines 41-63); on an empty df idxmax raises
\* ValueError (ok = FALSE).  The mean and the standard deviation are left out.
calculate_basic_stats(d) ==
    IF d = << >> THEN [ok |-> FALSE]
    ELSE [ok |-> TRUE,
          max |-> d[IdxMax(d)],
          min |-> d[IdxMin(d)],
          latest |-> d[Len(d)],
          earliest |-> d[1]]

RECURSIVE SumTo(_, _)
SumTo(f, n) == IF n = 0 THEN 0 ELSE f[n] + SumTo(f, n - 1)

\* What numpy.linalg.lstsq does inside polyfit when the design matrix holds
\* a NaN, as it does for a single row (x = [0], column norm 0): LAPACK
\* builds report "SVD did not converge" (LinAlgError) or hand back NaN.
SvdOutcomes == {"fails", "nan"}

\* assess_trend (lines 82-104) for a df with at least one row.  With
\* x = 0..n-1: cov = n*Sxy - Sx*Sy, vx = n*Sxx - Sx^2, vy = n*Syy - Sy^2;
\* the slope is cov / vx and the correlation cov / sqrt(vx * vy), which is
\* nan when vx * vy = 0; every comparison with nan is false.
assess_trend(d, svd) ==
    LET n == Len(d)
        x == [i \in 1..n |-> i - 1]
        y == [i \in 1..n |-> d[i].value]
        Sx == SumTo(x, n)
        Sy == SumTo(y, n)
        Sxy == SumTo([i \in 1..n |-> x[i] * y[i]], n)
        Sxx == SumTo([i \in 1..n |-> x[i] * x[i]], n)
        Syy == SumTo([i \in 1..n |-> y[i] * y[i]], n)
        cov == n * Sxy - Sx * Sy
        vx == n * Sxx - Sx * Sx
        vy == n * Syy - Sy * Sy
        isnan == vx * vy = 0
        below(num, den) == ~isnan /\ den * cov * cov < num * vx * vy
        trend == IF below(9, 100) THEN "stable"
                 ELSE IF vx # 0 /\ cov > 0 THEN "increasing"
                 ELSE "decreasing"
        strength == IF below(1, 4) THEN "weak"
                    ELSE IF below(64, 100) THEN "moderate"
                    ELSE "strong"
    IN  [ok |-> ~(vx = 0 /\ svd = "fails"),
         trend |-> trend,
         strength |-> strength,
         slope |-> IF vx = 0 THEN DivideByZero(0) ELSE Num(RoundDiv(100 * cov, vx))]

\* window=6 in the signature of detect_volatility_changes
VolatilityWindow == 6

\* detect_volatility_changes (lines 106-121): None when the df has fewer
\* than two windows of rows; the rolling deviations are left out
detect_volatility_changes(d, window) ==
    IF Len(d) < window * 2 THEN [present |-> FALSE] ELSE [present |-> TRUE]

\* values[i-12] at lines 214-216
YoYLag == 12

\* The two changes written for every row with a row `lag` places before it
LaggedChangeUnguarded(d, i, lag) ==
    IF i - lag >= 1
    THEN [absolute |-> Num(100 * (d[i].value - d[i - lag].value)),
          percentage |-> PercentChange(d[i - lag].value, d[i].value)]
    ELSE [absolute |-> None, percentage |-> None]

\* lines 206-219: round(float(to - from), 2) and the percentage of the change
\* from the row `lag` places before row i, or None for both
LaggedChange(d, i, lag) ==
    IF i - lag >= 1 /\ d[i - lag].value # 0
    THEN [absolute |-> Num(100 * (d[i].value - d[i - lag].value)),
          percentage |-> PercentChange(d[i - lag].value, d[i].value)]
    ELSE [absolute |-> None, percentage |-> None]

\* generate_integrated_timeseries (lines 176-226); the code's index i runs
\* from 0, this one from 1.  The inflection marks (find_peaks) are left out.
generate_integrated_timeseries(d) ==
    [i \in 1..Len(d) |->
        [date |-> d[i].date,
         value |-> d[i].value,
         mom_absolute |-> LaggedChange(d, i, 1).absolute,
         mom_percentage |-> LaggedChange(d, i, 1).percentage,
         yoy_absolute |-> LaggedChange(d, i, YoYLag).absolute,
         yoy_percentage |-> LaggedChange(d, i, YoYLag).percentage]]

\* The rows i (numbered from 1) that have a non-zero value `lag` rows before
\* them, in order: the rows the list comprehensions of lines 132 and 154 keep
EligibleRows(d, lag) ==
    SelectSeq([i \in 1..Len(d) |-> i], LAMBDA i : i - lag >= 1 /\ d[i - lag].value # 0)

\* Whether the change into row i is a larger fraction of the lagged value
\* than the change into row j: (a / b > c / d, both sides times (b * d)^2)
LargerChange(d, lag, i, j) ==
    LET a == d[i].value - d[i - lag].value
        b == d[i - lag].value
        c == d[j].value - d[j - lag].value
        e == d[j - lag].value
    IN  a * b * e * e > c * e * b * b

\* np.argmax and np.argmin over the changes of the kept rows: the position
\* (from 1) in rows of the first largest, smallest change
ArgMax(d, lag, rows) ==
    CHOOSE k \in 1..Len(rows) :
        /\ \A m \in 1..Len(rows) : ~LargerChange(d, lag, rows[m], rows[k])
        /\ \A m \in 1..(k - 1) : LargerChange(d, lag, rows[k], rows[m])
ArgMin(d, lag, rows) ==
    CHOOSE k \in 1..Len(rows) :
        /\ \A m \in 1..Len(rows) : ~LargerChange(d, lag, rows[k], rows[m])
        /\ \A m \in 1..(k - 1) : LargerChange(d, lag, rows[m], rows[k])

NoPeriod == [present |-> FALSE, date |-> 0, percentage |-> None, from_value |-> 0,
             to_value |-> 0]

\* One entry of get_notable_periods (lines 134-149, 156-172) for the change
\* at position k of the kept rows.  The code takes row = k + lag for the
\* row the change belongs to, numbering rows from 0 and positions from 0:
\* in the numbering from 1 used here that is row k + lag as well.
NotablePeriod(d, lag, rows, k) ==
    [present |-> TRUE,
     date |-> d[k + lag].date,
     percentage |-> PercentChange(d[rows[k] - lag].value, d[rows[k]].value),
     from_value |-> d[k].value,
     to_value |-> d[k + lag].value]

\* get_notable_periods (lines 123-174)
get_notable_periods(d) ==
    LET mom == EligibleRows(d, 1)
        yoy == EligibleRows(d, YoYLag)
    IN  [largest_mom_increase |->
             IF mom # << >> THEN NotablePeriod(d, 1, mom, ArgMax(d, 1, mom)) ELSE NoPeriod,
         largest_mom_decrease |->
             IF mom # << >> THEN NotablePeriod(d, 1, mom, ArgMin(d, 1, mom)) ELSE NoPeriod,
         largest_yoy_increase |->
             IF yoy # << >> THEN NotablePeriod(d, YoYLag, yoy, ArgMax(d, YoYLag, yoy))
             ELSE NoPeriod,
         largest_yoy_decrease |->
             IF yoy # << >> THEN NotablePeriod(d, YoYLag, yoy, ArgMin(d, YoYLag, yoy))
             ELSE NoPeriod]

\* seq[-k:] in Python for k >= 0: the last k items, and all of them for k = 0
LastItems(seq, k) ==
    IF k = 0 \/ k >= Len(seq) THEN seq
    ELSE SubSeq(seq, Len(seq) - k + 1, Len(seq))

\* min(5, recent_n_points) at line 272
CompactRecentPoints == 5

\* a key the dict does not have
NoKey == [kind |-> "nokey", v |-> 0]

\* generate_summary (lines 228-364) on the rows d; ok = FALSE when one of
\* the statistics raises, which nothing inside generate_summary catches.
\* The inflection points are left out.
generate_summary(d, indicator_name, recent_n_points, cm, svd) ==
    LET basic_stats == calculate_basic_stats(d)
        changes == calculate_changes(d)
        trend == assess_trend(d, svd)
        volatility == detect_volatility_changes(d, VolatilityWindow)
        full_timeseries == generate_integrated_timeseries(d)
    IN  IF ~basic_stats.ok THEN [ok |-> FALSE, exc |-> "ValueError"]
        ELSE IF ~trend.ok THEN [ok |-> FALSE, exc |-> "LinAlgError"]
        ELSE IF cm
        THEN [ok |-> TRUE,
              mode |-> SummaryShape(cm),
              metric_name |-> Absent,
              data_points |-> Len(d),
              current |-> basic_stats.latest,
              max |-> basic_stats.max,
              min |-> basic_stats.min,
              trend |-> [trend |-> trend.trend, strength |-> trend.strength],
              total_change_absolute |-> NoKey,
              notable_changes |-> Absent,
              total_change_pct |-> changes.percentage,
              recent |-> LastItems(full_timeseries,
                                   IF recent_n_points < CompactRecentPoints
                                   THEN recent_n_points ELSE CompactRecentPoints),
              volatility_analysis |-> FALSE]
        ELSE [ok |-> TRUE,
              mode |-> SummaryShape(cm),
              metric_name |-> indicator_name,
              data_points |-> Len(d),
              current |-> basic_stats.latest,
              max |-> basic_stats.max,
              min |-> basic_stats.min,
              trend |-> [trend |-> trend.trend, strength |-> trend.strength],
              total_change_absolute |-> changes.absolute,
              notable_changes |-> get_notable_periods(d),
              total_change_pct |-> changes.percentage,
              recent |-> IF recent_n_points # 0
                         THEN LastItems(full_timeseries, recent_n_points)
                         ELSE << >>,
              volatility_analysis |-> volatility.present]

-----------------------------------------------------------------------------
(* The model's replies (call_llm, llama_api.py:166-175)                     *)

\* A tool call as the model wrote it.  series_id "null" stands for every
\* shape that makes the extraction loop raise (series_id: null, arguments
\* given as text, no 'function' key); series_id Absent is an arguments
\* object without the key.
RawCall(id, sid, sd, s, ed, e) ==
    [id |-> id, series_id |-> sid, start_date |-> sd, start |-> s,
     end_date |-> ed, end |-> e]

RawCalls ==
    {RawCall("tc_a", "GDP", Iso(738886), AbsentDate, Iso(739038), AbsentDate),
     RawCall(Absent, "UNRATE ", AbsentDate, Iso(739038), EmptyDate, Iso(739038)),
     RawCall("tc_a", " ", Iso(739038), AbsentDate, Iso(738886), AbsentDate),
     RawCall(Absent, "GDP", BadDate, AbsentDate, Loose(739038), AbsentDate),
     RawCall("tc_b", "null", Iso(738886), AbsentDate, Iso(739038), AbsentDate),
     RawCall("tc_b", "CPI", Iso(739038), AbsentDate, Iso(200), AbsentDate),
     RawCall(Absent, Absent, Iso(738886), AbsentDate, Iso(739038), AbsentDate),
     RawCall("tc_c", "CPI", Iso(739038), AbsentDate, Iso(738886), AbsentDate)}

RECURSIVE SeqsUpTo(_, _)
SeqsUpTo(S, n) ==
    IF n = 0 THEN {<< >>}
    ELSE SeqsUpTo(S, n - 1)
         \cup {Append(q, x) : q \in {r \in SeqsUpTo(S, n - 1) : Len(r) = n - 1}, x \in S}

Reply(kind, content, has_tc, tcs) ==
    [kind |-> kind, content |-> content, has_tool_calls |-> has_tc, tool_calls |-> tcs]

\* kind "raise": call_llm raised (no connection, undecodable body);
\* kind "nomessage": a response without 'message'; kind "message" otherwise
PlanReplies ==
    {Reply("raise", Absent, FALSE, << >>), Reply("nomessage", Absent, FALSE, << >>)}
    \cup {Reply("message", c, FALSE, << >>) : c \in {Absent, "text"}}
    \cup {Reply("message", c, TRUE, << >>) : c \in {Absent, "text"}}
    \cup {Reply("message", "", TRUE, q) : q \in SeqsUpTo(RawCalls, MaxCalls) \ {<< >>}}

FinalReplies ==
    {Reply("raise", Absent, FALSE, << >>), Reply("nomessage", Absent, FALSE, << >>),
     Reply("message", Absent, FALSE, << >>), Reply("message", "answer", FALSE, << >>),
     Reply("message", "answer", TRUE,
           <<RawCall("tc_a", "GDP", Iso(738886), AbsentDate, Iso(739038), AbsentDate)>>)}

-----------------------------------------------------------------------------
(* extract_tool_calls (llama_api.py:177-250)                                *)

\* f'call_{i}'
CallName(i) == <<"call_0", "call_1", "call_2", "call_3", "call_4">>[i + 1]

\* args.get('series_id', '')
GetStr(v) == IF v = Absent THEN "" ELSE v

\* A strip() that leaves a string of blanks as it is
StripKeepsBlank(sid) ==
    CASE sid = "UNRATE " -> "UNRATE"
      [] OTHER -> sid

\* str.strip()
Strip(sid) ==
    CASE sid = " " -> ""
      [] sid = "UNRATE " -> "UNRATE"
      [] OTHER -> sid

\* a or b
Or(a, b) == IF Truthy(a) THEN a ELSE b

\* args.get(key, '')
GetOrEmpty(v) == IF v.k = "absent" THEN EmptyDate ELSE v

\* One iteration of the loop at lines 223-237; ok = FALSE when it raises.
ExtractCall(tc, i, now) ==
    LET sd == Or(tc.start_date, GetOrEmpty(tc.start))
        ed == Or(tc.end_date, GetOrEmpty(tc.end))
        fixed == fix_date_parameters(sd, ed, now)
    IN  [ok |-> fixed.ok /\ tc.series_id # "null",
         call |-> [tool_call_id |-> IF tc.id = Absent THEN CallName(i - 1) ELSE tc.id,
                   series_id |-> Strip(GetStr(tc.series_id)),
                   start_date |-> fixed.start,
                   end_date |-> fixed.end]]

Extraction(success, tcs, direct, error) ==
    [success |-> success, tool_calls |-> tcs, direct_answer |-> direct, error |-> error]

\* direct_answer is Absent when the returned dict has no such key
extract_tool_calls(reply, now) ==
    IF reply.kind = "raise" THEN Extraction(FALSE, << >>, Absent, "exception")
    ELSE IF reply.kind = "nomessage"
    THEN Extraction(FALSE, << >>, Absent, "No message in LLM response")
    ELSE IF ~reply.has_tool_calls
    THEN Extraction(TRUE, << >>,
                    IF reply.content = Absent THEN "" ELSE reply.content, Absent)
    ELSE LET ex == [i \in 1..Len(reply.tool_calls) |->
                        ExtractCall(reply.tool_calls[i], i, now)]
         IN  IF \E i \in 1..Len(ex) : ~ex[i].ok
             THEN Extraction(FALSE, << >>, Absent, "exception")
             ELSE Extraction(TRUE, [i \in 1..Len(ex) |-> ex[i].call], Absent, Absent)

-----------------------------------------------------------------------------
(* AccuracyEvaluator (retrieval_accuracy_test.py).  A score is counted in   *)
(* hundredths: 100 is the score 1.0.                                        *)

\* round(x, 2) of x = num / den (den > 0, 0 <= x <= 1): the nearest
\* hundredth.  A value halfway between two hundredths goes to the side on
\* which its binary representation lies, so either neighbour can come out.
Round2(num, den) ==
    {h \in 0..100 : /\ 2 * (h * den - 100 * num) <= den
                    /\ 2 * (100 * num - h * den) <= den}

\* sum(...) of a list of integers
RECURSIVE SumSeq(_)
SumSeq(s) == IF s = << >> THEN 0 ELSE s[1] + SumSeq(Tail(s))

\* set(list)
ToSet(s) == {s[i] : i \in 1..Len(s)}

\* A series-id score whose precision counts every request, repeated ones
\* included
evaluate_series_id_counting_requests(actual_calls, expected_series_ids) ==
    LET actual_ids == [i \in 1..Len(actual_calls) |-> actual_calls[i].series_id]
        expected_set == ToSet(expected_series_ids)
        actual_set == ToSet(actual_ids)
        correct == expected_set \cap actual_set
        hits == Cardinality({i \in 1..Len(actual_ids) : actual_ids[i] \in expected_set})
        precision == IF actual_set # {}
                     THEN [n |-> hits, d |-> Len(actual_ids)]
                     ELSE [n |-> 0, d |-> 1]
        recall == [n |-> Cardinality(correct), d |-> Cardinality(expected_set)]
        sum == precision.n * recall.d + recall.n * precision.d
        score == IF expected_set = {}
                 THEN (IF actual_set = {} THEN 100 ELSE 0)
                 ELSE IF sum > 0
                      THEN RoundDiv(200 * precision.n * recall.n, sum)
                      ELSE 0
    IN  [present |-> TRUE,
         score |-> score,
         correct_count |-> Cardinality(correct),
         correct |-> correct,
         missing |-> expected_set \ actual_set,
         extra |-> actual_set \ expected_set]

\* evaluate_series_id: precision and recall are kept as fractions n / d
evaluate_series_id(actual_calls, expected_series_ids) ==
    LET actual_ids == [i \in 1..Len(actual_calls) |-> actual_calls[i].series_id]
        expected_set == ToSet(expected_series_ids)
        actual_set == ToSet(actual_ids)
        correct == expected_set \cap actual_set
        missing == expected_set \ actual_set
        extra == actual_set \ expected_set
        precision == IF actual_set # {}
                     THEN [n |-> Cardinality(correct), d |-> Cardinality(actual_set)]
                     ELSE [n |-> 0, d |-> 1]
        recall == [n |-> Cardinality(correct), d |-> Cardinality(expected_set)]
        sum == precision.n * recall.d + recall.n * precision.d
        score == IF expected_set = {}
                 THEN (IF actual_set = {} THEN 100 ELSE 0)
                 ELSE IF sum > 0
                      THEN RoundDiv(200 * precision.n * recall.n, sum)
                      ELSE 0
    IN  [present |-> TRUE,
         score |-> score,
         correct_count |-> Cardinality(correct),
         correct |-> correct,
         missing |-> missing,
         extra |-> extra]

\* tolerance_days=30 of _compare_dates, and the value passed at lines 129-130
ToleranceDays == 30

\* A comparison without the decay: any difference within the tolerance is a
\* full match
_compare_dates_all_or_nothing(actual, expected, tolerance_days) ==
    IF ~Truthy(actual) \/ ~Truthy(expected) THEN 0
    ELSE LET actual_date == Strptime(actual)
             expected_date == Strptime(expected)
             diff_days == IF actual_date.d >= expected_date.d
                          THEN actual_date.d - expected_date.d
                          ELSE expected_date.d - actual_date.d
         IN  IF ~actual_date.ok \/ ~expected_date.ok THEN 0
             ELSE IF diff_days <= tolerance_days THEN tolerance_days
             ELSE 0

\* _compare_dates: the match multiplied by tolerance_days (30 is the match 1.0)
_compare_dates(actual, expected, tolerance_days) ==
    IF ~Truthy(actual) \/ ~Truthy(expected) THEN 0
    ELSE LET actual_date == Strptime(actual)
             expected_date == Strptime(expected)
             diff_days == IF actual_date.d >= expected_date.d
                          THEN actual_date.d - expected_date.d
                          ELSE expected_date.d - actual_date.d
         IN  IF ~actual_date.ok \/ ~expected_date.ok THEN 0
             ELSE IF diff_days = 0 THEN tolerance_days
             ELSE IF diff_days <= tolerance_days THEN tolerance_days - diff_days
             ELSE 0

\* The field expected_date_range of a test case.  empty: the field is {} or
\* is not there; relative_start and relative_end are Absent when the key is
\* not there, start and end are AbsentDate when the key is not there.
ExpectedRange(relative_start, start, relative_end, end) ==
    [empty |-> FALSE, relative_start |-> relative_start, start |-> start,
     relative_end |-> relative_end, end |-> end]
EmptyRange ==
    [empty |-> TRUE, relative_start |-> Absent, start |-> AbsentDate,
     relative_end |-> Absent, end |-> AbsentDate]

\* relative.endswith('y'), relative.endswith('m') and int(relative[:-1]) for
\* the values "1y", "2y", "1m" and "max"
RelativeUnit(relative) ==
    CASE relative \in {"1y", "2y"} -> "y"
      [] relative = "1m" -> "m"
      [] OTHER -> "other"
RelativeCount(relative) == IF relative = "2y" THEN 2 ELSE 1

\* lines 110-121
ExpectedStart(expected_date_range, now) ==
    IF expected_date_range.relative_start # Absent
    THEN LET relative == expected_date_range.relative_start IN
         CASE RelativeUnit(relative) = "y" ->
                Strftime(now - 365 * RelativeCount(relative))
           [] RelativeUnit(relative) = "m" ->
                Strftime(now - 30 * RelativeCount(relative))
           [] OTHER -> GetOrEmpty(expected_date_range.start)
    ELSE GetOrEmpty(expected_date_range.start)

\* lines 123-126
ExpectedEnd(expected_date_range, now) ==
    IF expected_date_range.relative_end = "today"
    THEN Strftime(now)
    ELSE GetOrEmpty(expected_date_range.end)

\* One iteration of the loop at lines 105-137: the two matches of a call and
\* what the details text says of it
CompareCall(call, expected_date_range, now) ==
    LET actual_start == GetOrEmpty(call.start_date)
        actual_end == GetOrEmpty(call.end_date)
        expected_start == ExpectedStart(expected_date_range, now)
        expected_end == ExpectedEnd(expected_date_range, now)
    IN  [series_id |-> call.series_id,
         actual_start |-> actual_start, expected_start |-> expected_start,
         actual_end |-> actual_end, expected_end |-> expected_end,
         start_match |-> _compare_dates(actual_start, expected_start, ToleranceDays),
         end_match |-> _compare_dates(actual_end, expected_end, ToleranceDays)]

DateEval(score, text, calls) ==
    [present |-> TRUE, score |-> score, details |-> [text |-> text, calls |-> calls]]

\* evaluate_date_range: the results round(avg_score, 2) can give.  A call
\* score is (start_match + end_match) / 2 and the average is the sum of the
\* call scores over their number.
evaluate_date_range(actual_calls, expected_date_range, now) ==
    IF expected_date_range.empty \/ actual_calls = << >>
    THEN {DateEval(100, "No date range to evaluate", << >>)}
    ELSE LET compared == [i \in 1..Len(actual_calls) |->
                             CompareCall(actual_calls[i], expected_date_range, now)]
             matches == [i \in 1..Len(compared) |->
                             compared[i].start_match + compared[i].end_match]
             details == [i \in 1..Len(compared) |->
                             [series_id |-> compared[i].series_id,
                              actual_start |-> compared[i].actual_start,
                              expected_start |-> compared[i].expected_start,
                              actual_end |-> compared[i].actual_end,
                              expected_end |-> compared[i].expected_end]]
         IN  {DateEval(h, "compared", details) :
                 h \in Round2(SumSeq(matches), 2 * ToleranceDays * Len(actual_calls))}

\* A test case of the fixture file.  has_required = FALSE: the case has no
\* key 'tool_call_required'.
TestCase(question_id, has_required, required, expected_series_ids, expected_date_range) ==
    [question_id |-> question_id, has_tool_call_required |-> has_required,
     tool_call_required |-> required, expected_series_ids |-> expected_series_ids,
     expected_date_range |-> expected_date_range]

\* test_case.get('tool_call_required', True)
ToolCallRequired(test_case) ==
    IF test_case.has_tool_call_required THEN test_case.tool_call_required ELSE TRUE

\* Keys a result dict does not have
NoSeriesEval ==
    [present |-> FALSE, score |-> 0, correct_count |-> 0, correct |-> {},
     missing |-> {}, extra |-> {}]
NoDateEval ==
    [present |-> FALSE, score |-> 0, details |-> [text |-> Absent, calls |-> << >>]]
NoCalls == [present |-> FALSE, calls |-> << >>]

\* The dict returned at lines 208-215 and 227-234
FailedCase(question_id, error) ==
    [question_id |-> question_id, success |-> FALSE, error |-> error,
     series_id_score |-> Num(0), date_range_score |-> Num(0), overall_score |-> 0,
     series_id_evaluation |-> NoSeriesEval, date_range_evaluation |-> NoDateEval,
     actual_calls |-> NoCalls]

\* The dict returned at lines 217-223 and 242-249
ScoredCase(question_id, series_eval, date_eval, overall_score, actual_calls) ==
    [question_id |-> question_id, success |-> TRUE, error |-> Absent,
     series_id_score |-> NoKey, date_range_score |-> NoKey,
     overall_score |-> overall_score,
     series_id_evaluation |-> series_eval, date_range_evaluation |-> date_eval,
     actual_calls |-> actual_calls]

\* evaluate_single_case with the extraction the agent returned for the
\* question: the results it can return
evaluate_single_case(test_case, ex, now) ==
    IF ~ToolCallRequired(test_case)
    THEN LET made_tool_call == ex.success /\ ex.tool_calls # << >> IN
         IF made_tool_call
         THEN {FailedCase(test_case.question_id,
                   "Model incorrectly made a tool call for a non-tool-call question")}
         ELSE {ScoredCase(test_case.question_id,
                   [present |-> TRUE, score |-> 100, correct_count |-> 0,
                    correct |-> {}, missing |-> {}, extra |-> {}],
                   DateEval(100, "No tool call expected or made", << >>),
                   100, NoCalls)}
    ELSE IF ~ex.success
    THEN {FailedCase(test_case.question_id,
              IF ex.error = Absent THEN "Tool call extraction failed" ELSE ex.error)}
    ELSE LET actual_calls == ex.tool_calls
             series_eval == evaluate_series_id(actual_calls, test_case.expected_series_ids)
         IN  {ScoredCase(test_case.question_id, series_eval, date_eval, overall_score,
                         [present |-> TRUE, calls |-> actual_calls]) :
                  <<date_eval, overall_score>> \in
                      {<<de, o>> \in
                          evaluate_date_range(actual_calls,
                                              test_case.expected_date_range, now)
                          \X (0..100) :
                          o \in Round2(series_eval.score + de.score, 200)}}

\* `if i >= 327: break` in the loop of run_all_tests
EvaluationCap == 327

\* results.index(r)
IndexOf(results, r) ==
    CHOOSE i \in 1..Len(results) :
        results[i] = r /\ \A j \in 1..(i - 1) : results[j] # r

\* [f(r) for r in results if keep(r)] as a list of integers
RECURSIVE Scores(_, _, _)
Scores(results, axis, i) ==
    IF i > Len(results) THEN << >>
    ELSE LET r == results[i]
             rest == Scores(results, axis, i + 1)
         IN  IF ~r.success THEN rest
             ELSE CASE axis = "series_id" ->
                         IF r.series_id_evaluation.present
                         THEN <<r.series_id_evaluation.score>> \o rest ELSE rest
                    [] axis = "date_range" ->
                         IF r.date_range_evaluation.present
                         THEN <<r.date_range_evaluation.score>> \o rest ELSE rest
                    [] OTHER -> <<r.overall_score>> \o rest

NoSummary ==
    [present |-> FALSE, total_tests |-> 0, successful_tests |-> 0, failed_tests |-> 0,
     tool_call_tests |-> 0, tool_call_passed |-> 0, non_tool_call_tests |-> 0,
     non_tool_call_passed |-> 0, avg_series_id_score |-> 0,
     avg_date_range_score |-> 0, avg_overall_score |-> 0]

\* A report whose means are taken over every evaluated case, the failed ones
\* counting for 0
SummarizeOverAllCases(test_cases, results) ==
    LET successful_tests == {i \in 1..Len(results) : results[i].success}
        n == Cardinality(successful_tests)
        tool_call_tests ==
            {i \in 1..Len(results) :
                ToolCallRequired(test_cases[IndexOf(results, results[i])])}
        non_tool_tests ==
            {i \in 1..Len(results) :
                ~ToolCallRequired(test_cases[IndexOf(results, results[i])])}
    IN  IF n = 0 THEN {[results |-> results, summary |-> NoSummary]}
        ELSE {[results |-> results,
               summary |->
                  [present |-> TRUE,
                   total_tests |-> Len(test_cases),
                   successful_tests |-> n,
                   failed_tests |-> Len(test_cases) - n,
                   tool_call_tests |-> Cardinality(tool_call_tests),
                   tool_call_passed |-> Cardinality(tool_call_tests \cap successful_tests),
                   non_tool_call_tests |-> Cardinality(non_tool_tests),
                   non_tool_call_passed |-> Cardinality(non_tool_tests \cap successful_tests),
                   avg_series_id_score |-> s,
                   avg_date_range_score |-> d,
                   avg_overall_score |-> o]] :
                <<s, d, o>> \in
                    Round2(SumSeq(Scores(results, "series_id", 1)), 100 * Len(results))
                    \X Round2(SumSeq(Scores(results, "date_range", 1)), 100 * Len(results))
                    \X Round2(SumSeq(Scores(results, "overall", 1)), 100 * Len(results))}

\* run_all_tests after its loop (lines 268-326): the dicts it can return
Summarize(test_cases, results) ==
    LET successful_tests == {i \in 1..Len(results) : results[i].success}
        n == Cardinality(successful_tests)
        tool_call_tests ==
            {i \in 1..Len(results) :
                ToolCallRequired(test_cases[IndexOf(results, results[i])])}
        non_tool_tests ==
            {i \in 1..Len(results) :
                ~ToolCallRequired(test_cases[IndexOf(results, results[i])])}
    IN  IF n = 0 THEN {[results |-> results, summary |-> NoSummary]}
        ELSE {[results |-> results,
               summary |->
                  [present |-> TRUE,
                   total_tests |-> Len(test_cases),
                   successful_tests |-> n,
                   failed_tests |-> Len(test_cases) - n,
                   tool_call_tests |-> Cardinality(tool_call_tests),
                   tool_call_passed |-> Cardinality(tool_call_tests \cap successful_tests),
                   non_tool_call_tests |-> Cardinality(non_tool_tests),
                   non_tool_call_passed |-> Cardinality(non_tool_tests \cap successful_tests),
                   avg_series_id_score |-> s,
                   avg_date_range_score |-> d,
                   avg_overall_score |-> o]] :
                <<s, d, o>> \in
                    Round2(SumSeq(Scores(results, "series_id", 1)), 100 * n)
                    \X Round2(SumSeq(Scores(results, "date_range", 1)), 100 * n)
                    \X Round2(SumSeq(Scores(results, "overall", 1)), 100 * n)}

-----------------------------------------------------------------------------
(* Initial states: the caller invokes one of the three public functions     *)

\* max_retries=1 in the signature of call_fred_api_with_fallback
DefaultMaxRetries == 1

TodayValues == {739252}

\* start_date arguments of a direct call of call_fred_api_with_fallback
FallbackStarts == {Iso(738886), Loose(738886), Iso(365029), Iso(200), BadDate}

\* supplied = FALSE: the caller leaves max_retries to its default
Given(sid, start, end, supplied, n) ==
    [series_id |-> sid, start_date |-> start, end_date |-> end,
     supplied |-> supplied, max_retries |-> n]
NoGiven == Given("", EmptyDate, EmptyDate, FALSE, DefaultMaxRetries)

NoReply == Reply("none", Absent, FALSE, << >>)
NoExtraction == Extraction(FALSE, << >>, Absent, Absent)
NoReturn == [success |-> FALSE, error |-> Absent, final_answer |-> Absent,
             result |-> Unbound]

InitCommon ==
    /\ today \in TodayValues
    /\ plan = NoReply
    /\ final_reply = NoReply
    /\ extraction = NoExtraction
    /\ tool_calls = << >>
    /\ idx = 0
    /\ api_results = << >>
    /\ compact_mode = FALSE
    /\ attempt = 0
    /\ result = Unbound
    /\ has_result = FALSE
    /\ fetches = << >>
    /\ llm_calls = 0
    /\ messages = << >>
    /\ ret = NoReturn
    /\ exc = "none"
    /\ df = << >>

InitProcessQuestion ==
    /\ entry = "process_question"
    /\ pc = "plan"
    /\ series_id = ""
    /\ start_date = EmptyDate
    /\ end_date = EmptyDate
    /\ max_retries = DefaultMaxRetries
    /\ given = NoGiven

InitFallback ==
    /\ entry = "call_fred_api_with_fallback"
    /\ pc = "fallback"
    /\ \E start \in FallbackStarts, supplied \in BOOLEAN, n \in -1..MaxBudget :
          /\ supplied \/ n = DefaultMaxRetries
          /\ given = Given("GDP", start, Iso(739252), supplied, n)
    /\ series_id = given.series_id
    /\ start_date = given.start_date
    /\ end_date = given.end_date
    /\ max_retries = given.max_retries

InitFetch ==
    /\ entry = "call_fred_api"
    /\ pc = "fetch"
    /\ series_id \in {"GDP", "UNRATE"}
    /\ start_date = Iso(738886)
    /\ end_date = Iso(739252)
    /\ max_retries = DefaultMaxRetries
    /\ given = NoGiven

\* start_date and end_date arguments of a call of fix_date_parameters
FixDateInputs ==
    {Iso(739252), Iso(739038), Iso(738886), Loose(738886), Iso(365029), Iso(200),
     BadDate, EmptyDate}

NoArgs == [start |-> EmptyDate, end |-> EmptyDate]

InitOrchestration ==
    /\ InitProcessQuestion \/ InitFallback \/ InitFetch
    /\ args = NoArgs
    /\ out = << >>

\* The start of a call of one of the helpers: nothing of the agent runs.
InitHelper ==
    /\ series_id = ""
    /\ start_date = EmptyDate
    /\ end_date = EmptyDate
    /\ max_retries = DefaultMaxRetries
    /\ given = NoGiven
    /\ out = << >>

InitFixDates ==
    /\ entry = "fix_date_parameters"
    /\ pc = "fix"
    /\ InitHelper
    /\ \E s \in FixDateInputs, e \in FixDateInputs : args = [start |-> s, end |-> e]

\* The value of observation i (1, 2, ...) in the series of shape p
SeriesShapes ==
    {"constant", "rising", "falling", "zero_first", "zero_every_other", "zeros", "wave"}
ShapeValue(p, i) ==
    CASE p = "constant" -> 2
      [] p = "rising" -> i
      [] p = "falling" -> 20 - i
      [] p = "zero_first" -> i - 1
      [] p = "zero_every_other" -> (i % 2) * 3
      [] p = "zeros" -> 0
      [] OTHER -> ((i * i) % 5) - 1

\* n observations of shape p in the order of their dates, or in the reverse
\* order; with gap, the second observation has the value "."
ObservationList(p, n, gap, reversed) ==
    [i \in 1..n |->
        LET j == IF reversed THEN n + 1 - i ELSE i
        IN  Observation(j, ShapeValue(p, j), ~(gap /\ j = 2))]

RecentPointsValues == {0, 3, 12}

InitAnalyzer ==
    /\ entry = "TimeSeriesAnalyzer"
    /\ pc = "construct"
    /\ InitHelper
    /\ \E p \in SeriesShapes, n \in 0..MaxPoints, gap \in BOOLEAN, reversed \in BOOLEAN,
          k \in RecentPointsValues, cm \in BOOLEAN :
          args = [data |-> ObservationList(p, n, gap, reversed),
                  indicator_name |-> "GDP",
                  recent_n_points |-> k,
                  compact_mode |-> cm]

\* Calls handed to evaluate_series_id and evaluate_date_range: tool_calls of an
\* extraction, or dicts a caller wrote (a date that does not parse, a
\* start_date key that is not there)
ActualCall(sid, start, end) == [series_id |-> sid, start_date |-> start, end_date |-> end]
ActualCalls ==
    {ActualCall("GDP", Iso(738886), Iso(739038)),
     ActualCall("UNRATE", Iso(738887), Iso(739252)),
     ActualCall("CPI", Iso(738521), Iso(738886)),
     ActualCall("GDP", BadDate, Loose(739052)),
     ActualCall("", AbsentDate, EmptyDate)}

ExpectedSeriesLists ==
    {<< >>, <<"GDP">>, <<"GDP", "UNRATE">>, <<"CPI">>, <<"GDP", "GDP">>}

\* Expected ranges: absolute ones 0, 14, 30 and 31 days away from the dates
\* of the GDP call, relative ones, one the fixture left empty, and ones with
\* an end that is not there or a start that is not a date
ExpectedRanges ==
    {EmptyRange,
     ExpectedRange(Absent, Iso(738886), Absent, Iso(739052)),
     ExpectedRange(Absent, Iso(738856), Absent, Iso(739069)),
     ExpectedRange("1y", AbsentDate, "today", AbsentDate),
     ExpectedRange("1m", AbsentDate, Absent, Iso(739038)),
     ExpectedRange("2y", AbsentDate, Absent, EmptyDate),
     ExpectedRange("max", BadDate, Absent, AbsentDate)}

InitSeriesId ==
    /\ entry = "evaluate_series_id"
    /\ pc = "score"
    /\ InitHelper
    /\ \E calls \in SeqsUpTo(ActualCalls, MaxCalls), ids \in ExpectedSeriesLists :
          args = [actual_calls |-> calls, expected_series_ids |-> ids]

InitDateRange ==
    /\ entry = "evaluate_date_range"
    /\ pc = "score"
    /\ InitHelper
    /\ \E calls \in SeqsUpTo(ActualCalls, MaxCalls), range \in ExpectedRanges :
          args = [actual_calls |-> calls, expected_date_range |-> range]

\* The number of test cases of a fixture
MaxCases == 2

\* The cases of a fixture, before their question_id is set
CaseKinds ==
    {TestCase(0, TRUE, TRUE, <<"GDP", "UNRATE">>,
              ExpectedRange(Absent, Iso(738886), Absent, Iso(739052))),
     TestCase(0, FALSE, FALSE, <<"GDP">>,
              ExpectedRange("1y", AbsentDate, "today", AbsentDate)),
     TestCase(0, TRUE, FALSE, << >>, EmptyRange),
     TestCase(0, TRUE, TRUE, <<"CPI">>, EmptyRange)}

\* A fixture: each case has its position as question_id
Fixture(kinds) == [i \in 1..Len(kinds) |-> [kinds[i] EXCEPT !.question_id = i]]

\* What the model answers to the question of a test case
ScorerReplies ==
    {Reply("raise", Absent, FALSE, << >>),
     Reply("nomessage", Absent, FALSE, << >>),
     Reply("message", "text", FALSE, << >>)}
    \cup {Reply("message", "", TRUE, q) : q \in
            {<<RawCall("tc_a", "GDP", Iso(738886), AbsentDate, Iso(739038), AbsentDate)>>,
             <<RawCall("tc_a", "GDP", Iso(738886), AbsentDate, Iso(739038), AbsentDate),
               RawCall("tc_a", "GDP", Iso(738886), AbsentDate, Iso(739038), AbsentDate)>>,
             <<RawCall("tc_a", "GDP", Iso(738886), AbsentDate, Iso(739038), AbsentDate),
               RawCall(Absent, "UNRATE ", AbsentDate, Iso(739038), EmptyDate, Iso(739038))>>,
             <<RawCall("tc_b", "null", Iso(738886), AbsentDate, Iso(739038), AbsentDate)>>,
             <<RawCall("tc_c", "CPI", Iso(739038), AbsentDate, Iso(738886), AbsentDate)>>}}

InitRunAllTests ==
    /\ entry = "run_all_tests"
    /\ pc = "evaluate"
    /\ InitHelper
    /\ \E kinds \in SeqsUpTo(CaseKinds, MaxCases) : args = [test_cases |-> Fixture(kinds)]

InitScorer == InitSeriesId \/ InitDateRange \/ InitRunAllTests

Init == InitCommon /\ (InitOrchestration \/ InitFixDates \/ InitAnalyzer \/ InitScorer)

-----------------------------------------------------------------------------
(* fix_date_parameters called on a pair, and called again on what it        *)
(* returned (the clock `today` is the same for both calls)                  *)

\* pc "fixed": the call returned; pc "raised": it raised OverflowError
FixDates ==
    /\ pc = "fix"
    /\ LET r == fix_date_parameters(args.start, args.end, today) IN
       /\ out' = Append(out, r)
       /\ IF r.ok THEN pc' = "fixed" /\ exc' = exc
          ELSE pc' = "raised" /\ exc' = "OverflowError"
    /\ UNCHANGED <<df, args, entry, today, plan, final_reply, extraction, tool_calls, idx,
                   api_results, series_id, start_date, end_date, max_retries,
                   compact_mode, attempt, result, has_result, given, fetches,
                   llm_calls, messages, ret>>

FixDatesAgain ==
    /\ pc = "fixed"
    /\ LET r == fix_date_parameters(out[1].start, out[1].end, today) IN
       /\ out' = Append(out, r)
       /\ IF r.ok THEN pc' = "refixed" /\ exc' = exc
          ELSE pc' = "raised" /\ exc' = "OverflowError"
    /\ UNCHANGED <<df, args, entry, today, plan, final_reply, extraction, tool_calls, idx,
                   api_results, series_id, start_date, end_date, max_retries,
                   compact_mode, attempt, result, has_result, given, fetches,
                   llm_calls, messages, ret>>

-----------------------------------------------------------------------------
(* TimeSeriesAnalyzer(data) and one of its methods called on the object     *)

Unchanged_agent ==
    UNCHANGED <<args, entry, today, plan, final_reply, extraction, tool_calls, idx,
                api_results, series_id, start_date, end_date, max_retries,
                compact_mode, attempt, result, has_result, given, fetches,
                llm_calls, messages, ret>>

\* __init__ (lines 12-19)
Construct ==
    /\ pc = "construct"
    /\ LET r == parse_json(args.data) IN
       IF r.ok THEN /\ df' = r.df
                    /\ pc' = "analyzer"
                    /\ exc' = exc
       ELSE /\ df' = df
            /\ pc' = "raised"
            /\ exc' = "ValueError"
    /\ out' = out
    /\ Unchanged_agent

\* calculate_changes(); on an empty df iloc[0] raises IndexError
CalculateChanges ==
    /\ pc = "analyzer"
    /\ IF df # << >>
       THEN /\ out' = <<calculate_changes(df)>>
            /\ pc' = "changes"
            /\ exc' = exc
       ELSE /\ out' = out
            /\ pc' = "raised"
            /\ exc' = "IndexError"
    /\ df' = df
    /\ Unchanged_agent

\* assess_trend(); on an empty df polyfit raises TypeError
AssessTrend ==
    /\ pc = "analyzer"
    /\ \E svd \in SvdOutcomes :
          IF df = << >>
          THEN /\ out' = out
               /\ pc' = "raised"
               /\ exc' = "TypeError"
          ELSE IF assess_trend(df, svd).ok
          THEN /\ out' = <<assess_trend(df, svd)>>
               /\ pc' = "trend"
               /\ exc' = exc
          ELSE /\ out' = out
               /\ pc' = "raised"
               /\ exc' = "LinAlgError"
    /\ df' = df
    /\ Unchanged_agent

\* get_notable_periods()
NotablePeriods ==
    /\ pc = "analyzer"
    /\ out' = <<get_notable_periods(df)>>
    /\ pc' = "notable"
    /\ UNCHANGED <<df, exc>>
    /\ Unchanged_agent

\* generate_integrated_timeseries()
IntegratedTimeseries ==
    /\ pc = "analyzer"
    /\ out' = <<generate_integrated_timeseries(df)>>
    /\ pc' = "timeseries"
    /\ UNCHANGED <<df, exc>>
    /\ Unchanged_agent

\* generate_summary(indicator_name, recent_n_points=..., compact_mode=...)
GenerateSummary ==
    /\ pc = "analyzer"
    /\ \E svd \in SvdOutcomes :
          LET r == generate_summary(df, args.indicator_name, args.recent_n_points,
                                    args.compact_mode, svd) IN
          IF r.ok THEN /\ out' = <<r>>
                       /\ pc' = "summary"
                       /\ exc' = exc
          ELSE /\ out' = out
               /\ pc' = "raised"
               /\ exc' = r.exc
    /\ df' = df
    /\ Unchanged_agent

-----------------------------------------------------------------------------
(* call_fred_api called directly (fred_api.py:83)                           *)

FetchDirect ==
    /\ pc = "fetch"
    /\ \E o \in DirectFetchOutcomes(series_id, start_date, end_date) :
          /\ fetches' = Append(fetches, FetchRecord(series_id, start_date, end_date, o, llm_calls))
          /\ IF o.out.exc = "none"
             THEN /\ pc' = "returned"
                  /\ ret' = [NoReturn EXCEPT !.success = o.out.result.success,
                                             !.result = o.out.result]
                  /\ exc' = exc
             ELSE /\ pc' = "raised"
                  /\ exc' = o.out.exc
                  /\ ret' = ret
    /\ UNCHANGED <<df, args, out, entry, today, plan, final_reply, extraction, tool_calls, idx, api_results,
                   series_id, start_date, end_date, max_retries, compact_mode,
                   attempt, result, has_result, given, llm_calls, messages>>

-----------------------------------------------------------------------------
(* call_fred_api_with_fallback (llama_api.py:121-157)                       *)

\* line 142: result['success'] and result.get('data')
Satisfied(res) == res.success /\ res.data # NoData

\* line 148: attempt < max_retries - 1
MayRetry(a, n) == a < n - 1

\* The widening done with a 360-day "year"
WidenStartBy360(sd) ==
    LET p == Strptime(sd)
        m == MinusDays(p.d, 360)
    IN  [ok |-> p.ok /\ m.ok, start |-> Strftime(m.d)]

\* lines 149-155: the start date moved back 365 days; ok = FALSE when
\* strptime or the subtraction raises (except: break)
WidenStart(sd) ==
    LET p == Strptime(sd)
        m == MinusDays(p.d, Days365)
    IN  [ok |-> p.ok /\ m.ok, start |-> Strftime(m.d)]

\* The fallback returns res: to execute_tool_calls (lines 313-314), which
\* stamps the tool_call_id on it and appends it, or to the direct caller.
Return(res) ==
    IF entry = "process_question"
    THEN /\ api_results' = Append(api_results,
                [res EXCEPT !.tool_call_id = tool_calls[idx + 1].tool_call_id])
         /\ idx' = idx + 1
         /\ pc' = "execute"
         /\ UNCHANGED <<ret, exc>>
    ELSE /\ ret' = [NoReturn EXCEPT !.success = res.success, !.result = res]
         /\ pc' = "returned"
         /\ UNCHANGED <<api_results, idx, exc>>

\* An exception leaves the fallback: nothing up to the caller catches it.
Propagate(e) ==
    /\ pc' = "raised"
    /\ exc' = e
    /\ UNCHANGED <<api_results, idx, ret>>

\* One iteration of the loop at line 139
FallbackAttempt ==
    /\ pc = "fallback"
    /\ attempt < max_retries
    /\ \E o \in KeywordFetchOutcomes(series_id, start_date, end_date, compact_mode) :
          /\ fetches' = Append(fetches, FetchRecord(series_id, start_date, end_date, o, llm_calls))
          /\ IF o.out.exc # "none"
             THEN /\ Propagate(o.out.exc)
                  /\ UNCHANGED <<start_date, attempt, result, has_result>>
             ELSE /\ result' = o.out.result
                  /\ has_result' = TRUE
                  /\ IF Satisfied(o.out.result)
                     THEN /\ Return(o.out.result)
                          /\ UNCHANGED <<start_date, attempt>>
                     ELSE IF MayRetry(attempt, max_retries)
                     THEN IF WidenStart(start_date).ok
                          THEN /\ start_date' = WidenStart(start_date).start
                               /\ attempt' = attempt + 1
                               /\ UNCHANGED <<pc, api_results, idx, ret, exc>>
                          ELSE \* break, then return result (line 157)
                               /\ Return(o.out.result)
                               /\ UNCHANGED <<start_date, attempt>>
                     ELSE /\ attempt' = attempt + 1
                          /\ UNCHANGED <<start_date, pc, api_results, idx, ret, exc>>
    /\ UNCHANGED <<df, args, out, entry, today, plan, final_reply, extraction, tool_calls, series_id, end_date,
                   max_retries, compact_mode, given, llm_calls, messages>>

\* The loop has run out, and the result of the first attempt is returned
FallbackExhaustedKeepsFirst ==
    /\ pc = "fallback"
    /\ attempt >= max_retries
    /\ IF has_result THEN Return(fetches[Len(fetches) - attempt + 1].out.result)
       ELSE Propagate("UnboundLocalError")
    /\ UNCHANGED <<df, args, out, entry, today, plan, final_reply, extraction, tool_calls, series_id,
                   start_date, end_date, max_retries, compact_mode, attempt, result,
                   has_result, given, fetches, llm_calls, messages>>

\* The loop has run out: return result (line 157), which is unbound when the
\* loop body never ran
FallbackExhausted ==
    /\ pc = "fallback"
    /\ attempt >= max_retries
    /\ IF has_result THEN Return(result) ELSE Propagate("UnboundLocalError")
    /\ UNCHANGED <<df, args, out, entry, today, plan, final_reply, extraction, tool_calls, series_id, start_date,
                   end_date, max_retries, compact_mode, attempt, result, has_result,
                   given, fetches, llm_calls, messages>>

-----------------------------------------------------------------------------
(* FredLLMAgent.process_question (llama_api.py:318-453)                     *)

ReturnDict(success, error, answer) ==
    [success |-> success, error |-> error, final_answer |-> answer, result |-> Unbound]

\* Step 1 (lines 343-367): the plan turn and what follows from it at once
PlanTurn ==
    /\ pc = "plan"
    /\ \E reply \in PlanReplies :
          LET ex == extract_tool_calls(reply, today) IN
          /\ plan' = reply
          /\ extraction' = ex
          /\ llm_calls' = llm_calls + 1
          /\ IF ~ex.success
             THEN /\ ret' = ReturnDict(FALSE, ex.error, Absent)
                  /\ pc' = "error"
                  /\ tool_calls' = tool_calls
             ELSE IF ex.tool_calls = << >>
             THEN \* extraction.get('direct_answer', '')
                  /\ ret' = ReturnDict(TRUE, Absent,
                               IF ex.direct_answer = Absent THEN "" ELSE ex.direct_answer)
                  /\ pc' = "direct"
                  /\ tool_calls' = tool_calls
             ELSE /\ tool_calls' = ex.tool_calls
                  /\ pc' = "execute"
                  /\ ret' = ret
    /\ UNCHANGED <<df, args, out, entry, today, final_reply, idx, api_results, series_id,
                   start_date, end_date, max_retries, compact_mode, attempt, result,
                   has_result, given, fetches, messages, exc>>

\* execute_tool_calls, one iteration of the loop at line 267 up to the call of
\* the fallback; use_compact = len(tool_calls) > 2
ExecuteToolCall ==
    /\ pc = "execute"
    /\ idx < Len(tool_calls)
    /\ LET call == tool_calls[idx + 1]
           sd == IF Truthy(call.start_date) THEN call.start_date
                 ELSE Strftime(today - 730)
           ed == IF Truthy(call.end_date) THEN call.end_date ELSE Strftime(today)
       IN  IF call.series_id = ""
           THEN /\ api_results' = Append(api_results,
                       [ResultDict(FALSE, Absent, Absent, NoData, Absent,
                                   "No series_id provided")
                            EXCEPT !.tool_call_id = call.tool_call_id])
                /\ idx' = idx + 1
                /\ UNCHANGED <<pc, series_id, start_date, end_date, max_retries,
                               compact_mode, attempt, result, has_result, given>>
           ELSE /\ series_id' = call.series_id
                /\ start_date' = sd
                /\ end_date' = ed
                /\ max_retries' = DefaultMaxRetries
                /\ compact_mode' = (Len(tool_calls) > 2)
                /\ attempt' = 0
                /\ result' = Unbound
                /\ has_result' = FALSE
                /\ given' = Given(call.series_id, sd, ed, FALSE, DefaultMaxRetries)
                /\ pc' = "fallback"
                /\ UNCHANGED <<api_results, idx>>
    /\ UNCHANGED <<df, args, out, entry, today, plan, final_reply, extraction, tool_calls, fetches, llm_calls,
                   messages, ret, exc>>

\* The reminder put on every tool message
ReminderOnEvery(results, i) ==
    [present |-> TRUE, n |-> Len(results),
     series_list |-> SelectSeq([j \in 1..Len(results) |->
                                   [success |-> results[j].success,
                                    series_id |-> results[j].series_id]],
                               LAMBDA r : r.success)]

\* The reminder of lines 410-415, on the last result only
Reminder(results, i) ==
    IF i = Len(results)
    THEN [present |-> TRUE, n |-> Len(results),
          series_list |-> SelectSeq([j \in 1..Len(results) |->
                                        [success |-> results[j].success,
                                         series_id |-> results[j].series_id]],
                                    LAMBDA r : r.success)]
    ELSE [present |-> FALSE, n |-> 0, series_list |-> << >>]

\* One tool message (lines 398-421)
ToolMessage(results, i) ==
    LET r == results[i] IN
    [role |-> "tool",
     tool_call_id |-> r.tool_call_id,
     content |-> IF r.success
                 THEN [series_id |-> r.series_id, indicator |-> r.indicator_name,
                       analysis |-> r.analysis, error |-> Absent,
                       reminder |-> Reminder(results, i)]
                 ELSE [series_id |-> Absent, indicator |-> Absent,
                       analysis |-> Absent, error |-> r.error,
                       reminder |-> Reminder(results, i)]]

\* Step 3 (lines 385-453): execute_tool_calls has returned; build the
\* conversation, call the model once more, return
FinalizeTurn ==
    /\ pc = "execute"
    /\ idx = Len(tool_calls)
    /\ messages' = [i \in 1..Len(api_results) |-> ToolMessage(api_results, i)]
    /\ llm_calls' = llm_calls + 1
    /\ \E reply \in FinalReplies :
          /\ final_reply' = reply
          /\ IF reply.kind = "raise"
             THEN /\ pc' = "raised"
                  /\ exc' = "LLMError"
                  /\ ret' = ret
             ELSE \* final_result.get("message", {}).get("content", "No response generated")
                  /\ ret' = ReturnDict(TRUE, Absent,
                               IF reply.kind = "nomessage" \/ reply.content = Absent
                               THEN "No response generated" ELSE reply.content)
                  /\ pc' = "final"
                  /\ exc' = exc
    /\ UNCHANGED <<df, args, out, entry, today, plan, extraction, tool_calls, idx, api_results,
                   series_id, start_date, end_date, max_retries, compact_mode,
                   attempt, result, has_result, given, fetches>>

-----------------------------------------------------------------------------

-----------------------------------------------------------------------------
(* AccuracyEvaluator: the two axes called on their own, and run_all_tests   *)

\* evaluate_series_id(actual_calls, expected_series_ids)
EvaluateSeriesId ==
    /\ entry = "evaluate_series_id"
    /\ pc = "score"
    /\ out' = <<evaluate_series_id(args.actual_calls, args.expected_series_ids)>>
    /\ pc' = "scored"
    /\ UNCHANGED <<df, exc>>
    /\ Unchanged_agent

\* evaluate_date_range(actual_calls, expected_date_range)
EvaluateDateRange ==
    /\ entry = "evaluate_date_range"
    /\ pc = "score"
    /\ \E r \in evaluate_date_range(args.actual_calls, args.expected_date_range, today) :
          out' = <<r>>
    /\ pc' = "scored"
    /\ UNCHANGED <<df, exc>>
    /\ Unchanged_agent

\* One iteration of the loop of run_all_tests (lines 261-266): the agent asks
\* the model and extract_tool_calls returns, then the case is scored
EvaluateSingleCase ==
    /\ entry = "run_all_tests"
    /\ pc = "evaluate"
    /\ LET i == Len(out) + 1 IN
       /\ i <= Len(args.test_cases)
       /\ i < EvaluationCap
       /\ \E reply \in ScorerReplies :
             LET ex == extract_tool_calls(reply, today) IN
             /\ plan' = reply
             /\ extraction' = ex
             /\ \E r \in evaluate_single_case(args.test_cases[i], ex, today) :
                   out' = Append(out, r)
    /\ llm_calls' = llm_calls + 1
    /\ pc' = pc
    /\ UNCHANGED <<df, exc, args, entry, today, final_reply, tool_calls, idx,
                   api_results, series_id, start_date, end_date, max_retries,
                   compact_mode, attempt, result, has_result, given, fetches,
                   messages, ret>>

\* run_all_tests after the loop (lines 268-326)
RunAllTests ==
    /\ entry = "run_all_tests"
    /\ pc = "evaluate"
    /\ LET i == Len(out) + 1 IN i > Len(args.test_cases) \/ i >= EvaluationCap
    /\ \E r \in Summarize(args.test_cases, out) : out' = <<r>>
    /\ pc' = "reported"
    /\ UNCHANGED <<df, exc>>
    /\ Unchanged_agent

Next ==
    \/ FixDates
    \/ FixDatesAgain
    \/ Construct
    \/ CalculateChanges
    \/ AssessTrend
    \/ NotablePeriods
    \/ IntegratedTimeseries
    \/ GenerateSummary
    \/ FetchDirect
    \/ FallbackAttempt
    \/ FallbackExhausted
    \/ PlanTurn
    \/ ExecuteToolCall
    \/ FinalizeTurn
    \/ EvaluateSeriesId
    \/ EvaluateDateRange
    \/ EvaluateSingleCase
    \/ RunAllTests

Spec == Init /\ [][Next]_vars

-----------------------------------------------------------------------------
(* Vocabulary of the claims                                                 *)

FallbackCalled == entry = "call_fred_api_with_fallback"
FetchCalled == entry = "call_fred_api"
QuestionAsked == entry = "process_question"

\* the fetch returned a result that is failed or has no observations
FailedOrEmpty(f) ==
    f.out.exc = "none" /\ ~(f.out.result.success /\ f.out.result.data # NoData)

\* the fetch returned a result with success = true and observations
Nonempty(f) ==
    f.out.exc = "none" /\ f.out.result.success /\ f.out.result.data # NoData

\* the data source answered 200 with an empty observation list
AnsweredEmpty(f) ==
    /\ f.http.kind = "response"
    /\ f.http.status = 200
    /\ f.http.json_ok
    /\ f.http.has_obs
    /\ f.http.observations = NoData

\* the data source answered 200 with at least one observation
AnsweredData(f) ==
    /\ f.http.kind = "response"
    /\ f.http.status = 200
    /\ f.http.json_ok
    /\ f.http.has_obs
    /\ f.http.observations # NoData

\* the data source was unreachable or answered with a status other than 200
TransportError(f) ==
    \/ f.http.kind = "unreachable"
    \/ f.http.kind = "response" /\ f.http.status # 200

\* the content text of a reply ('' when it has none)
ContentText(reply) == IF reply.content = Absent THEN "" ELSE reply.content

\* process_question returned a failure object with the error text
ReportsFailure ==
    /\ pc = "error"
    /\ ~ret.success
    /\ ret.error # Absent
    /\ ret.final_answer = Absent

\* process_question has returned or raised
Ended == pc \in {"direct", "final", "error", "raised"}

\* the start date of fetch f can be moved back 365 days
Widenable(f) == f.start.k \in {"iso", "loose"} /\ f.start.d - 365 >= 1

\* the tool call, as the model wrote it, has no series_id or a blank one
BlankSeries(tc) == tc.series_id \in {Absent, "", " "}

\* the id of the i-th tool call: the one the model gave, else call_{i-1}
IdOf(tcs, i) == IF tcs[i].id = Absent THEN CallName(i - 1) ELSE tcs[i].id

\* the series ids of the successful results, in the order of the results
RECURSIVE SeriesOfSuccesses(_)
SeriesOfSuccesses(results) ==
    IF results = << >> THEN << >>
    ELSE IF Head(results).success
         THEN <<Head(results).series_id>> \o SeriesOfSuccesses(Tail(results))
         ELSE SeriesOfSuccesses(Tail(results))
RetrievedSeries == SeriesOfSuccesses(api_results)

\* the series ids a tool message's reminder names
NamedSeries(msg) ==
    [j \in 1..Len(msg.content.reminder.series_list) |->
        msg.content.reminder.series_list[j].series_id]

\* fix_date_parameters was called on its own and has returned or raised
DatesResolved == entry = "fix_date_parameters" /\ Len(out) >= 1

\* strptime(s, '%Y-%m-%d') accepts the string
Parses(s) == s.k \in {"iso", "loose"}

\* the string is a zero-padded YYYY-MM-DD date with a year of 1000 or later
PaddedFourDigitYear(s) == s.k = "iso" /\ s.d >= 364878

\* the string is what strftime('%Y-%m-%d') prints for its date
Printed(s) == s.k = (IF s.d >= 364878 THEN "iso" ELSE "short")

\* the arguments are the default window of the clock value now
DefaultWindow(r, now) == r.ok /\ r.start = Iso(now - 365) /\ r.end = Iso(now)

\* a method of a TimeSeriesAnalyzer was called and returned
ChangesReturned == entry = "TimeSeriesAnalyzer" /\ pc = "changes"
TimeseriesReturned == entry = "TimeSeriesAnalyzer" /\ pc = "timeseries"
SummaryReturned == entry = "TimeSeriesAnalyzer" /\ pc = "summary"
TrendReturned == entry = "TimeSeriesAnalyzer" /\ pc = "trend"
NotableReturned == entry = "TimeSeriesAnalyzer" /\ pc = "notable"

\* the field is absent: the key is missing or its value is None
FieldAbsent(x) == x.kind \in {"none", "nokey"}

\* the field holds a finite number
FieldNumber(x) == x.kind = "num"

\* x holds the change from value `from` to value `to`: abs the difference
\* and pct the percentage of `from` it makes, to the nearest hundredth
HoldsChange(abs, pct, from, to) ==
    /\ FieldNumber(abs) /\ abs.v = 100 * (to - from)
    /\ FieldNumber(pct)
    /\ LET err == pct.v * from - 10000 * (to - from)
           size == IF from < 0 THEN -from ELSE from
       IN  2 * err <= size /\ -2 * err <= size

\* row j of the frame d has a row `lag` places before it with a non-zero value
Eligible(d, lag, j) == j - lag >= 1 /\ d[j - lag].value # 0

\* the change into row i, as a fraction of the lagged value, is at least the
\* change into row j (both rows eligible)
ChangeAtLeast(d, lag, i, j) ==
    LET a == d[i].value - d[i - lag].value
        b == d[i - lag].value
        c == d[j].value - d[j - lag].value
        e == d[j - lag].value
    IN  a * b * e * e >= c * e * b * b

\* the entry e is that of an eligible row whose change is the largest
\* (sign = 1) or the smallest (sign = -1) of its lag class, with that row's
\* date and end values and the percentage these two values make
IsExtremePeriod(e, d, lag, sign) ==
    IF \E j \in 1..Len(d) : Eligible(d, lag, j)
    THEN /\ e.present
         /\ e.from_value # 0
         /\ \E j \in 1..Len(d) :
               /\ Eligible(d, lag, j)
               /\ e.date = d[j].date
               /\ e.from_value = d[j - lag].value
               /\ e.to_value = d[j].value
               /\ \A m \in 1..Len(d) :
                     Eligible(d, lag, m) =>
                         IF sign = 1 THEN ChangeAtLeast(d, lag, j, m)
                         ELSE ChangeAtLeast(d, lag, m, j)
         /\ FieldNumber(e.percentage)
         /\ LET err == e.percentage.v * e.from_value - 10000 * (e.to_value - e.from_value)
                size == IF e.from_value < 0 THEN -e.from_value ELSE e.from_value
            IN  2 * err <= size /\ -2 * err <= size
    ELSE ~e.present

-----------------------------------------------------------------------------
(* C1: with the default attempt budget, a failed or empty first fetch is    *)
(* followed by one extra fetch, whose start date is 365 days earlier and    *)
(* whose end date is the same.                                              *)
(* The code does not do this: max_retries=1 is used as the number of        *)
(* attempts (range(max_retries)), so the default budget allows no retry.    *)
C1_DefaultBudgetOneExtraFetch ==
    (/\ FallbackCalled
     /\ ~given.supplied
     /\ pc = "returned"
     /\ Len(fetches) >= 1
     /\ FailedOrEmpty(fetches[1]))
    => /\ Len(fetches) = 2
       /\ fetches[2].start.d = given.start_date.d - 365
       /\ fetches[2].end = given.end_date

-----------------------------------------------------------------------------
(* C2: for a budget N >= 2 and any behaviour of the fetcher, attempt 1 is   *)
(* issued with the given (start, end); attempt k is issued with the start   *)
(* 365*(k-1) days before the given start and with the given end; the first  *)
(* attempt whose result has success = true and observations is the last     *)
(* fetch issued, and its result is the one returned.                        *)
C2_FallbackWidensAndReturnsFirstNonempty ==
    (FallbackCalled /\ given.supplied /\ given.max_retries >= 2)
    => /\ Len(fetches) <= given.max_retries
       /\ \A k \in 1..Len(fetches) :
             /\ fetches[k].end = given.end_date
             /\ k = 1 => fetches[k].start = given.start_date
             /\ k > 1 => /\ given.start_date.k \in {"iso", "loose"}
                         /\ fetches[k].start.d = given.start_date.d - 365 * (k - 1)
             /\ Nonempty(fetches[k])
                   => /\ k = Len(fetches)
                      /\ pc = "returned"
                      /\ ret.result = fetches[k].out.result

\* empty, then nonempty, with N = 2: the attempt-2 result is returned, fetched
\* with a start 365 days before the given one
C2_Witness ==
    /\ FallbackCalled
    /\ given.supplied
    /\ given.max_retries = 2
    /\ Len(fetches) = 2
    /\ AnsweredEmpty(fetches[1])
    /\ Nonempty(fetches[2])
    /\ fetches[2].start.d = given.start_date.d - 365
    /\ pc = "returned"
    /\ ret.result = fetches[2].out.result

-----------------------------------------------------------------------------
(* C3, as claimed: when every attempt yields a failed or empty result, the  *)
(* fallback issues exactly max_attempts fetches and returns the result of   *)
(* the last fetch unchanged.                                                *)
(* Refuted: a start date that cannot be parsed or moved back 365 days ends  *)
(* the loop (except: break) before the budget is used up.                   *)
C3_ExactlyMaxAttemptsFetches ==
    (/\ FallbackCalled
     /\ pc = "returned"
     /\ \A k \in 1..Len(fetches) : FailedOrEmpty(fetches[k]))
    => /\ Len(fetches) = given.max_retries
       /\ ret.result = fetches[Len(fetches)].out.result

(* C3, amended: when every attempt yields a failed or empty result, the     *)
(* fallback issues at most max_attempts fetches, exactly max_attempts       *)
(* unless the start date of its last fetch cannot be parsed or moved back   *)
(* 365 days, and returns the result of the last fetch unchanged; no earlier *)
(* result is kept.                                                          *)
C3_LastResultAfterAtMostMaxAttempts ==
    (/\ FallbackCalled
     /\ pc = "returned"
     /\ \A k \in 1..Len(fetches) : FailedOrEmpty(fetches[k]))
    => /\ Len(fetches) >= 1
       /\ Len(fetches) <= given.max_retries
       /\ Len(fetches) < given.max_retries => ~Widenable(fetches[Len(fetches)])
       /\ \A k \in 1..(Len(fetches) - 1) : Widenable(fetches[k])
       /\ ret.result = fetches[Len(fetches)].out.result
       /\ ret.success = fetches[Len(fetches)].out.result.success

\* three failed attempts with different results, the third one returned
C3_Witness ==
    /\ FallbackCalled
    /\ pc = "returned"
    /\ given.max_retries = 3
    /\ Len(fetches) = 3
    /\ \A k \in 1..3 : FailedOrEmpty(fetches[k])
    /\ fetches[1].out.result # fetches[3].out.result
    /\ ret.result = fetches[3].out.result

-----------------------------------------------------------------------------
(* C4: when the data source answers with a success status and zero          *)
(* observations, call_fred_api returns success = true with an empty         *)
(* observation list and no analysis, not an error result.                   *)
(* The code does not do this: the empty answer falls through to the failure *)
(* return of line 69 (success = false, "Failed to fetch ...: Status 200").  *)
C4_EmptyAnswerIsSuccess ==
    (FetchCalled /\ Len(fetches) = 1 /\ AnsweredEmpty(fetches[1]))
    => /\ pc = "returned"
       /\ ret.result.success
       /\ ret.result.data = NoData
       /\ ret.result.analysis = Absent
       /\ ret.result.error = Absent

-----------------------------------------------------------------------------
(* C5: whenever the data source answers with a success status and at least  *)
(* one observation, call_fred_api returns success = true with the raw       *)
(* observations, whether or not the analytics raised; when they raise, the  *)
(* result has no analysis and is still a success.                           *)
C5_AnalyticsFailureNeverMasksFetch ==
    \A k \in 1..Len(fetches) :
        AnsweredData(fetches[k])
        => /\ fetches[k].out.exc = "none"
           /\ fetches[k].out.result.success
           /\ fetches[k].out.result.data = fetches[k].http.observations
           /\ fetches[k].out.result.error = Absent
           /\ fetches[k].an = "raises" => fetches[k].out.result.analysis = Absent
           /\ FetchCalled => /\ pc = "returned"
                             /\ ret.result = fetches[k].out.result

\* the analytics raised and the caller still got the observations
C5_Witness ==
    /\ FetchCalled
    /\ pc = "returned"
    /\ Len(fetches) = 1
    /\ AnsweredData(fetches[1])
    /\ fetches[1].an = "raises"
    /\ ret.result.success
    /\ ret.result.data = <<"o1", "o2">>
    /\ ret.result.analysis = Absent

-----------------------------------------------------------------------------
(* C6: for every list of tool calls extracted from the plan reply, the      *)
(* finalize-turn conversation holds exactly one tool message per tool call, *)
(* built after every fetch of the question has completed, each with the     *)
(* tool_call_id of its own call; a failed call contributes a message with   *)
(* the error, and neither the remaining calls nor the finalize turn are     *)
(* skipped.                                                                 *)
(* The code does not do this when a fetch raises: the exception leaves      *)
(* execute_tool_calls and process_question before any message is built.     *)
C6_OneToolMessagePerCall ==
    (QuestionAsked /\ extraction.success /\ tool_calls # << >>)
    => /\ pc = "raised" => llm_calls = 2
       /\ llm_calls = 2
             => /\ Len(messages) = Len(tool_calls)
                /\ \A i \in 1..Len(messages) :
                      /\ messages[i].tool_call_id = tool_calls[i].tool_call_id
                      /\ ~api_results[i].success
                            => /\ messages[i].content.error = api_results[i].error
                               /\ messages[i].content.error # Absent
                /\ \A k \in 1..Len(fetches) : fetches[k].after_llm = 1

-----------------------------------------------------------------------------
(* C7: a transport error on one series (data source unreachable, or a       *)
(* non-2xx status) becomes that series' result {success: false, error} and  *)
(* never makes process_question fail as a whole.                            *)
(* The code does this for a non-200 status only: when the data source is    *)
(* unreachable requests.get raises, and nothing catches the exception.      *)
C7_TransportErrorNeverFatal ==
    QuestionAsked
    => \A k \in 1..Len(fetches) :
          TransportError(fetches[k])
          => /\ fetches[k].out.exc = "none"
             /\ ~fetches[k].out.result.success
             /\ fetches[k].out.result.error # Absent

-----------------------------------------------------------------------------
(* C8: if the plan reply has no tool invocations (tool_calls absent or an   *)
(* empty list), process_question ends in DirectAnswer: success = true,      *)
(* final_answer equal to the content text of the reply, no fetch and no     *)
(* second model call.                                                       *)
(* The code loses the text when tool_calls is an empty list: the dict       *)
(* returned at lines 239-243 has no direct_answer, so final_answer is ''.   *)
C8_NoToolCallsIsDirectAnswer ==
    (/\ QuestionAsked
     /\ plan.kind = "message"
     /\ ~plan.has_tool_calls \/ plan.tool_calls = << >>)
    => /\ pc = "direct"
       /\ ret.success
       /\ ret.final_answer = ContentText(plan)
       /\ fetches = << >>
       /\ llm_calls = 1

-----------------------------------------------------------------------------
(* C9: when a model response lacks the message field, in the plan turn or   *)
(* in the finalize turn, process_question reports an overall failure        *)
(* (success = false with the error text) and no fabricated final answer.    *)
(* The code does this in the plan turn only: in the finalize turn it        *)
(* returns success = true with the answer "No response generated".          *)
C9_MissingMessageIsFailure ==
    QuestionAsked
    => /\ plan.kind = "nomessage" => ReportsFailure
       /\ final_reply.kind = "nomessage" => ReportsFailure

-----------------------------------------------------------------------------
(* C10: process_question makes exactly two model calls when the plan reply  *)
(* yields tool calls and exactly one when it ends in DirectAnswer; tool     *)
(* invocations of the finalize reply are never executed, so no fetch        *)
(* happens after the second model call.                                     *)
(* The code makes one model call only when a fetch raises: the exception    *)
(* ends process_question before the finalize turn.                          *)
C10_ExactlyTwoModelTurns ==
    QuestionAsked
    => /\ (Ended /\ extraction.success /\ tool_calls # << >>) => llm_calls = 2
       /\ pc = "direct" => llm_calls = 1
       /\ llm_calls <= 2
       /\ \A k \in 1..Len(fetches) : fetches[k].after_llm < 2

-----------------------------------------------------------------------------
(* C11: every run of process_question ends in DirectAnswer, FinalAnswer or  *)
(* Error, Error being a returned failure object with the error text; the    *)
(* states are visited in the order AwaitingModelPlan, HasToolCalls,         *)
(* ResultsGathered, FinalAnswer or AwaitingModelPlan, DirectAnswer.         *)
(* The code does not do this: an exception raised by a fetch or by the      *)
(* finalize-turn call of the model leaves process_question uncaught, and    *)
(* the run ends with no returned object at all.                             *)
C11_EndsInTerminalState ==
    QuestionAsked =>
        /\ pc \in {"plan", "execute", "fallback", "direct", "final", "error"}
        /\ pc = "error" => ReportsFailure
        /\ pc = "direct" => llm_calls = 1 /\ tool_calls = << >> /\ fetches = << >>
        /\ pc = "final" => /\ llm_calls = 2
                           /\ tool_calls # << >>
                           /\ Len(api_results) = Len(tool_calls)

-----------------------------------------------------------------------------
(* C12: a tool call whose series_id is missing or blank yields a failed     *)
(* result slot carrying its tool_call_id, no request is sent to the data    *)
(* source for it, and the sibling calls of the question are still executed: *)
(* the loop goes on after the slot, and every fetch made is the fetch of a  *)
(* sibling that names a series, one per such sibling handled so far.        *)
C12_BlankSeriesFailsWithoutFetch ==
    QuestionAsked /\ tool_calls # << >> =>
        /\ \A i \in 1..Len(api_results) :
              BlankSeries(plan.tool_calls[i]) =>
                  /\ ~api_results[i].success
                  /\ api_results[i].error = "No series_id provided"
                  /\ api_results[i].tool_call_id = IdOf(plan.tool_calls, i)
                  /\ api_results[i].data = NoData
                  /\ pc # "raised" => i <= idx
        /\ \A k \in 1..Len(fetches) : fetches[k].series_id \notin {"", " ", Absent}
        /\ pc = "execute" =>
              /\ Len(api_results) = idx
              /\ Len(fetches) = Cardinality({j \in 1..idx : ~BlankSeries(plan.tool_calls[j])})
        /\ pc = "final" =>
              /\ Len(api_results) = Len(tool_calls)
              /\ Len(fetches) = Cardinality({j \in 1..Len(tool_calls) :
                                                ~BlankSeries(plan.tool_calls[j])})

\* a blank call between two siblings that were fetched, the second after it
C12_Witness ==
    /\ QuestionAsked
    /\ pc = "final"
    /\ Len(tool_calls) = 3
    /\ plan.tool_calls[1].series_id = Absent
    /\ plan.tool_calls[2].series_id = "GDP"
    /\ plan.tool_calls[3].series_id = " "
    /\ api_results[1].tool_call_id = "call_0"
    /\ api_results[3].tool_call_id = "tc_a"
    /\ Len(fetches) = 1
    /\ fetches[1].series_id = "GDP"

-----------------------------------------------------------------------------
(* C13: when the plan reply of a question holds three or more tool calls,   *)
(* every series fetched for it is summarized in compact mode; with one or   *)
(* two tool calls, every series is summarized in detailed mode.             *)
(* The code does not do this: the flag computed in execute_tool_calls stops *)
(* at call_fred_api, which neither accepts it nor hands it to               *)
(* generate_summary, so a summary is never compact.                         *)
C13_CompactFromThreeCalls ==
    QuestionAsked =>
        \A i \in 1..Len(api_results) :
            api_results[i].success /\ api_results[i].analysis # Absent =>
                api_results[i].analysis =
                    IF Len(tool_calls) >= 3 THEN "compact" ELSE "detailed"

-----------------------------------------------------------------------------
(* C14: in the finalize-turn conversation, for any number n >= 1 of tool    *)
(* calls, the reminder is attached to exactly one tool message, the last    *)
(* one, and it names every series that was retrieved successfully (those    *)
(* and no others, in the order of the results).                             *)
C14_ReminderOnLastMessageOnly ==
    QuestionAsked /\ llm_calls = 2 =>
        /\ Len(messages) = Len(tool_calls)
        /\ Len(messages) >= 1
        /\ \A i \in 1..Len(messages) :
              messages[i].content.reminder.present <=> i = Len(messages)
        /\ NamedSeries(messages[Len(messages)]) = RetrievedSeries
        /\ messages[Len(messages)].content.reminder.n = Len(tool_calls)

\* three tool calls, two of them retrieved, the last one failed
C14_Witness ==
    /\ QuestionAsked
    /\ llm_calls = 2
    /\ Len(messages) = 3
    /\ ~api_results[3].success
    /\ messages[3].content.reminder.present
    /\ NamedSeries(messages[3]) = <<"GDP", "UNRATE">>
    /\ ~messages[1].content.reminder.present
    /\ ~messages[2].content.reminder.present

-----------------------------------------------------------------------------
(* C15, as claimed: fix_date_parameters(start, end) at clock value now      *)
(* returns (now - 365 days, now) when either input fails to parse or start  *)
(* and end are the same day; (end - 365 days, end) when start > end; and    *)
(* the inputs unchanged when start < end.                                   *)
(* Refuted: a pair in order comes back printed anew, so a string without    *)
(* zero padding or with a year below 1000 is not returned unchanged; and an *)
(* inverted pair whose end is within 365 days of 0001-01-01 raises.         *)
C15_RepairsOrReturnsUnchanged ==
    DatesResolved =>
        LET r == out[1]
            s == args.start
            e == args.end
        IN  IF ~Parses(s) \/ ~Parses(e) \/ s.d = e.d
            THEN DefaultWindow(r, today)
            ELSE IF s.d > e.d
            THEN r.ok /\ r.start.d = e.d - 365 /\ r.end.d = e.d
            ELSE r.ok /\ r.start = s /\ r.end = e

(* C15, amended: fix_date_parameters(start, end) at clock value now returns *)
(* (now - 365 days, now) when either input fails to parse or start and end  *)
(* are the same day; when start > end it returns (end - 365 days, end), or  *)
(* raises OverflowError if end - 365 days precedes 0001-01-01; when         *)
(* start < end it returns the same two dates.  Every date returned is       *)
(* printed anew by strftime, so an input comes back as the same string only *)
(* if it is zero-padded with a year of 1000 or later.                       *)
C15_RepairsOrReprintsDates ==
    DatesResolved =>
        LET r == out[1]
            s == args.start
            e == args.end
        IN  IF ~Parses(s) \/ ~Parses(e) \/ s.d = e.d
            THEN DefaultWindow(r, today)
            ELSE IF s.d > e.d
            THEN IF e.d - 365 >= 1
                 THEN /\ r.ok
                      /\ r.start.d = e.d - 365 /\ Printed(r.start)
                      /\ r.end.d = e.d /\ Printed(r.end)
                 ELSE ~r.ok /\ pc = "raised" /\ exc = "OverflowError"
            ELSE /\ r.ok
                 /\ r.start.d = s.d /\ Printed(r.start)
                 /\ r.end.d = e.d /\ Printed(r.end)
                 /\ PaddedFourDigitYear(s) => r.start = s
                 /\ PaddedFourDigitYear(e) => r.end = e

\* a pair in order whose start is written without zero padding
C15_Witness ==
    /\ DatesResolved
    /\ args.start = Loose(738886)
    /\ args.end = Iso(739038)
    /\ out[1].start = Iso(738886)
    /\ out[1].end = Iso(739038)

-----------------------------------------------------------------------------
(* C16: fix_date_parameters is idempotent: for every input pair, resolving  *)
(* the pair it returned once more under the same clock value returns that   *)
(* pair unchanged.                                                          *)
(* The code does not do this for a date with a year below 1000: strftime    *)
(* prints the year without leading zeros, strptime rejects what was         *)
(* printed, and the second resolution answers with the default window.      *)
C16_ResolvingTwiceChangesNothing ==
    entry = "fix_date_parameters" /\ Len(out) = 2 =>
        /\ pc = "refixed"
        /\ out[2] = out[1]

-----------------------------------------------------------------------------
(* C17: every date range that reaches the data source during a question,    *)
(* in the first attempt of a tool call and in every widened retry, has      *)
(* start_date <= end_date, whatever date strings the model supplied.        *)
C17_FetchedRangesAreOrdered ==
    QuestionAsked =>
        \A k \in 1..Len(fetches) :
            /\ fetches[k].start.k \in {"iso", "short"}
            /\ fetches[k].end.k \in {"iso", "short"}
            /\ fetches[k].start.d <= fetches[k].end.d

\* the model wrote start 2024-06-01 and end 2024-01-01 for CPI, and wrote an
\* unparsable start for GDP; both were fetched
C17_Witness ==
    /\ QuestionAsked
    /\ Len(plan.tool_calls) = 2
    /\ plan.tool_calls[1].series_id = "CPI"
    /\ plan.tool_calls[1].start_date.d > plan.tool_calls[1].end_date.d
    /\ plan.tool_calls[2].start_date = BadDate
    /\ Len(fetches) = 2
    /\ fetches[1].series_id = "CPI"
    /\ fetches[1].start = Iso(738521)
    /\ fetches[1].end = Iso(738886)
    /\ fetches[2].start = Iso(738887)
    /\ fetches[2].end = Iso(739252)

-----------------------------------------------------------------------------
(* C18: when the first value of the series is zero, calculate_changes       *)
(* signals that the percentage change is undefined, by an error or by an    *)
(* absent field, instead of dividing and reporting a number.                *)
(* The code does not do this: it divides by the first value without a test, *)
(* and the call returns with inf, -inf or nan as the percentage.            *)
C18_ZeroFirstValueIsSignalled ==
    ChangesReturned /\ df[1].value = 0 => FieldAbsent(out[1].percentage)

-----------------------------------------------------------------------------
(* C19: when one statistic cannot be computed for a nonempty series (a zero *)
(* first value for the percentage change, too few points for the           *)
(* volatility comparison), generate_summary leaves out the affected         *)
(* sub-fields only and still returns the rest of the summary; the failure   *)
(* of one statistic never aborts the whole summary.                         *)
(* Stated here for the series of two or more points.                        *)
(* The code does not do this: for a zero first value the percentage of      *)
(* claim C18 is not left out but reported as inf or nan (and nothing in     *)
(* generate_summary catches a statistic that raises).                       *)
C19_SummaryOmitsOnlyWhatFailed ==
    entry = "TimeSeriesAnalyzer" /\ Len(df) >= 2 /\ pc \in {"summary", "raised"} =>
        /\ pc = "summary"
        /\ IF df[1].value = 0
           THEN FieldAbsent(out[1].total_change_pct)
           ELSE FieldNumber(out[1].total_change_pct)
        /\ Len(df) < 2 * VolatilityWindow => ~out[1].volatility_analysis
        /\ out[1].data_points = Len(df)
        /\ out[1].current = df[Len(df)]
        /\ out[1].trend.trend \in {"stable", "increasing", "decreasing"}

-----------------------------------------------------------------------------
(* C20: in the annotated time series, counting points from 0, the           *)
(* month-over-month fields of point i are absent exactly when i < 1 or      *)
(* value[i-1] = 0, and the year-over-year fields are absent exactly when    *)
(* i < 12 or value[i-12] = 0; otherwise they hold the change from the       *)
(* lagged value to value[i].  (Rows are numbered from 1 below.)             *)
C20_LaggedFieldsAbsentExactlyWhenUndefined ==
    TimeseriesReturned =>
        /\ Len(out[1]) = Len(df)
        /\ \A j \in 1..Len(df) :
              LET pt == out[1][j] IN
              /\ pt.value = df[j].value
              /\ IF j - 1 < 1 \/ df[j - 1].value = 0
                 THEN FieldAbsent(pt.mom_absolute) /\ FieldAbsent(pt.mom_percentage)
                 ELSE HoldsChange(pt.mom_absolute, pt.mom_percentage,
                                  df[j - 1].value, df[j].value)
              /\ IF j - 12 < 1 \/ df[j - 12].value = 0
                 THEN FieldAbsent(pt.yoy_absolute) /\ FieldAbsent(pt.yoy_percentage)
                 ELSE HoldsChange(pt.yoy_absolute, pt.yoy_percentage,
                                  df[j - 12].value, df[j].value)

\* fourteen points 0, 1, ..., 13: the second and the thirteenth look back on
\* the zero, the third and the fourteenth on the 1
C20_Witness ==
    /\ TimeseriesReturned
    /\ Len(df) = 14
    /\ \A j \in 1..14 : df[j].value = j - 1
    /\ FieldAbsent(out[1][2].mom_percentage)
    /\ out[1][3].mom_percentage = Num(10000)
    /\ out[1][4].mom_percentage = Num(5000)
    /\ FieldAbsent(out[1][12].yoy_absolute)
    /\ FieldAbsent(out[1][13].yoy_percentage)
    /\ out[1][14].yoy_absolute = Num(1200)
    /\ out[1][14].yoy_percentage = Num(120000)

-----------------------------------------------------------------------------
(* C21: for every series and every recent_n_points setting, the             *)
(* compact-mode summary contains at most 5 time-series points, and they are *)
(* the most recent points of the series.                                    *)
(* The code does not do this for recent_n_points = 0: the slice             *)
(* full_timeseries[-min(5, 0):] is full_timeseries[0:], the whole series.   *)
C21_CompactHasAtMostFivePoints ==
    SummaryReturned /\ out[1].mode = "compact" =>
        /\ Len(out[1].recent) <= 5
        /\ Len(out[1].recent) <= Len(df)
        /\ \A j \in 1..Len(out[1].recent) :
              /\ out[1].recent[j].date = df[Len(df) - Len(out[1].recent) + j].date
              /\ out[1].recent[j].value = df[Len(df) - Len(out[1].recent) + j].value

-----------------------------------------------------------------------------
(* C27: call_fred_api_with_fallback returns a result dictionary for every   *)
(* value of its attempt budget, max_retries = 0 or a negative value         *)
(* included: it always performs at least one fetch and never fails for      *)
(* lack of a result to return.                                              *)
(* The code does not do this: with max_retries <= 0 the loop body never     *)
(* runs, no fetch is made, and `return result` raises UnboundLocalError.    *)
C27_AlwaysOneFetchAndAResult ==
    FallbackCalled /\ pc \in {"returned", "raised"} =>
        /\ Len(fetches) >= 1
        /\ exc # "UnboundLocalError"
        /\ pc = "returned" => ret.result # Unbound

-----------------------------------------------------------------------------
(* C30: for a series whose values are all equal (zero slope, correlation    *)
(* between index and value undefined), assess_trend reports the trend label *)
(* "stable"; it never reports "increasing" or "decreasing" nor the strength *)
(* "strong" for such a series.                                              *)
(* The code does not do this: the undefined correlation is nan, every       *)
(* comparison with nan is false, and the else branches are taken:           *)
(* "decreasing" (the slope is not above 0) and "strong".  Stated here for   *)
(* the series of two or more points.                                        *)
C30_ConstantSeriesIsStable ==
    TrendReturned /\ Len(df) >= 2 /\ (\A j \in 1..Len(df) : df[j].value = df[1].value) =>
        /\ out[1].trend = "stable"
        /\ out[1].strength # "strong"

-----------------------------------------------------------------------------
(* C26: for every series, series in which some lagged value is zero         *)
(* included, each entry reported by get_notable_periods (largest MoM        *)
(* increase and decrease, largest YoY increase and decrease) is the maximum *)
(* (respectively minimum) percentage change over all eligible points of its *)
(* lag class, its date, from_value and to_value are those of the point that *)
(* attains it, so that percentage = (to_value - from_value) / from_value *  *)
(* 100, and from_value is never zero; an entry is omitted exactly when its  *)
(* lag class has no eligible point.                                         *)
(* The code does not do this when a lagged value is zero: the changes of    *)
(* the eligible points are collected in a list without the skipped points,  *)
(* and the position in that list is used as if it were the position in the  *)
(* series, so the date and the two values are those of an earlier point.    *)
C26_NotablePeriodsAreTheExtremes ==
    NotableReturned =>
        /\ IsExtremePeriod(out[1].largest_mom_increase, df, 1, 1)
        /\ IsExtremePeriod(out[1].largest_mom_decrease, df, 1, -1)
        /\ IsExtremePeriod(out[1].largest_yoy_increase, df, 12, 1)
        /\ IsExtremePeriod(out[1].largest_yoy_decrease, df, 12, -1)

-----------------------------------------------------------------------------
\* run_all_tests has just scored a case: the case, its result and whether
\* the reply of the model to its question carried a tool call
CaseEvaluated == entry = "run_all_tests" /\ pc = "evaluate" /\ out # << >>
LastCase == args.test_cases[Len(out)]
LastResult == out[Len(out)]
ModelMadeToolCall ==
    plan.kind = "message" /\ plan.has_tool_calls /\ plan.tool_calls # << >>

(* C22: for a test case declaring that no tool call is expected,            *)
(* evaluate_single_case gives overall score 1.0 if and only if the model    *)
(* made zero tool calls, and 0.0 otherwise; no partial score is ever given  *)
(* for such a case.                                                         *)
(* The code does not do this for a reply whose tool call is malformed: the  *)
(* extraction fails, a failed extraction is taken for "no tool call", and   *)
(* the case gets 1.0 although the model made a tool call.                   *)
C22_NoToolCaseScoresOneIffNoCall ==
    (CaseEvaluated /\ ~ToolCallRequired(LastCase)) =>
        /\ LastResult.overall_score \in {0, 100}
        /\ LastResult.overall_score = 100 <=> ~ModelMadeToolCall

-----------------------------------------------------------------------------
\* evaluate_series_id has returned, called on its own or for a case of
\* run_all_tests: the ids requested, the ids expected and the score
SeriesScored ==
    \/ entry = "evaluate_series_id" /\ pc = "scored"
    \/ CaseEvaluated /\ LastResult.actual_calls.present
RequestedCalls ==
    IF entry = "evaluate_series_id" THEN args.actual_calls
    ELSE LastResult.actual_calls.calls
RequestedIds == {RequestedCalls[i].series_id : i \in 1..Len(RequestedCalls)}
ExpectedIds ==
    ToSet(IF entry = "evaluate_series_id" THEN args.expected_series_ids
          ELSE LastCase.expected_series_ids)
SeriesScore ==
    IF entry = "evaluate_series_id" THEN out[1].score
    ELSE LastResult.series_id_evaluation.score

(* C23: evaluate_series_id returns the F1 score (the harmonic mean of       *)
(* precision and recall, rounded to two decimals) between the set of        *)
(* expected series ids and the set of requested ids: 1.0 when both sets are *)
(* empty, 0.0 when the expected set is nonempty and the requested set is    *)
(* empty or disjoint from it, 0.67 for expected {GDP, UNRATE} against       *)
(* requested {GDP}; the score depends on the set of requested ids only, so  *)
(* repeated requests of an id do not change it.  With c ids in common, a    *)
(* requested and e expected, the harmonic mean of c/a and c/e is 2c/(a+e).  *)
C23_SeriesScoreIsF1 ==
    SeriesScored =>
        LET c == Cardinality(RequestedIds \cap ExpectedIds)
            a == Cardinality(RequestedIds)
            e == Cardinality(ExpectedIds)
        IN  /\ (e = 0 /\ a = 0) => SeriesScore = 100
            /\ (e > 0 /\ c = 0) => SeriesScore = 0
            /\ (e > 0 /\ c > 0) =>
                   /\ 2 * (SeriesScore * (a + e) - 200 * c) <= a + e
                   /\ 2 * (200 * c - SeriesScore * (a + e)) <= a + e
            /\ (ExpectedIds = {"GDP", "UNRATE"} /\ RequestedIds = {"GDP"}) =>
                   SeriesScore = 67

\* GDP requested twice against expected {GDP, UNRATE}: the score is 0.67
C23_Witness ==
    /\ entry = "evaluate_series_id" /\ pc = "scored"
    /\ ExpectedIds = {"GDP", "UNRATE"}
    /\ RequestedIds = {"GDP"}
    /\ Len(args.actual_calls) = 2
    /\ out[1].score = 67

-----------------------------------------------------------------------------
\* evaluate_date_range has compared the dates of at least one call with an
\* expected range, called on its own or for a case of run_all_tests
DateEvaluation ==
    IF entry = "evaluate_date_range" THEN out[1] ELSE LastResult.date_range_evaluation
DatesCompared ==
    /\ \/ entry = "evaluate_date_range" /\ pc = "scored"
       \/ CaseEvaluated /\ LastResult.date_range_evaluation.present
    /\ DateEvaluation.details.text = "compared"

\* Thirty times the match of two date strings: 30 for the same day, 30 - d
\* for d days apart up to 30, 0 beyond and 0 when one is not a date
MatchInThirtieths(actual, expected) ==
    IF actual.k \in {"iso", "loose"} /\ expected.k \in {"iso", "loose"}
    THEN LET d == IF actual.d >= expected.d THEN actual.d - expected.d
                  ELSE expected.d - actual.d
         IN  IF d <= 30 THEN 30 - d ELSE 0
    ELSE 0

(* C24: the match of an actual date against an expected date is 1.0 for the *)
(* same day, 1 - d/30 for a difference of d days with 0 < d <= 30 (0.0 at   *)
(* 30 days, about 0.53 at 14 days) and 0.0 beyond 30 days or when either    *)
(* date is missing or not a date; the score of a call is the mean of its    *)
(* start match and its end match, and the date score of a case whose calls  *)
(* were compared with an expected range is the mean over all its calls,     *)
(* rounded to two decimals.                                                 *)
C24_DateScoreIsMeanOfDecayedMatches ==
    DatesCompared =>
        LET calls == DateEvaluation.details.calls
            n == Len(calls)
            total == SumSeq([i \in 1..n |->
                        MatchInThirtieths(calls[i].actual_start, calls[i].expected_start)
                        + MatchInThirtieths(calls[i].actual_end, calls[i].expected_end)])
            score == DateEvaluation.score
        IN  /\ n = Len(IF entry = "evaluate_date_range" THEN args.actual_calls
                       ELSE LastResult.actual_calls.calls)
            /\ n > 0
            /\ 2 * (score * 60 * n - 100 * total) <= 60 * n
            /\ 2 * (100 * total - score * 60 * n) <= 60 * n

\* One call whose start is the expected day and whose end is 14 days before
\* the expected end: matches 1.0 and 16/30, score 0.77
C24_Witness ==
    /\ entry = "evaluate_date_range" /\ pc = "scored"
    /\ DateEvaluation.details.text = "compared"
    /\ Len(args.actual_calls) = 1
    /\ LET c == DateEvaluation.details.calls[1] IN
       /\ c.actual_start = c.expected_start
       /\ c.actual_end.k = "iso" /\ c.expected_end.k = "iso"
       /\ c.expected_end.d - c.actual_end.d = 14
    /\ out[1].score = 77

-----------------------------------------------------------------------------
(* C28: for a test case that requires a tool call and expects a nonempty    *)
(* set of series ids, if the model made no tool call at all the overall     *)
(* score is 0: a case with no calls earns no credit on the date-range axis. *)
(* The code does not do this: with no call to compare, evaluate_date_range  *)
(* returns 1.0, and the case gets 0.5.                                      *)
C28_NoCallEarnsNothing ==
    (/\ CaseEvaluated
     /\ ToolCallRequired(LastCase)
     /\ LastCase.expected_series_ids # << >>
     /\ ~ModelMadeToolCall)
        => LastResult.overall_score = 0

-----------------------------------------------------------------------------
(* C29: a test case whose tool-call extraction failed (the response of the  *)
(* model had no message, or the call of the model raised) is never counted  *)
(* as passed: its result has success = false and overall score 0, whether   *)
(* or not the case required a tool call.                                    *)
(* The code does not do this for a case that requires no tool call: the     *)
(* failed extraction is read as "no tool call was made" and the case passes *)
(* with score 1.0.                                                          *)
C29_FailedExtractionNeverPasses ==
    (CaseEvaluated /\ ~extraction.success) =>
        ~LastResult.success /\ LastResult.overall_score = 0

-----------------------------------------------------------------------------
\* run_all_tests has returned: its results, its summary, the positions of
\* the cases of a group (required = TRUE: the cases that require a tool
\* call) and of the passed cases
Reported == entry = "run_all_tests" /\ pc = "reported"
Results == out[1].results
Summary == out[1].summary
Group(required) ==
    {i \in 1..Len(Results) : ToolCallRequired(args.test_cases[i]) = required}
Passed == {i \in 1..Len(Results) : Results[i].success}

\* The score of result i on an axis; a failed case has none and counts for 0
AxisScore(i, axis) ==
    IF ~Results[i].success THEN 0
    ELSE CASE axis = "series_id" -> Results[i].series_id_evaluation.score
           [] axis = "date_range" -> Results[i].date_range_evaluation.score
           [] OTHER -> Results[i].overall_score

\* h is the mean, rounded to two decimals, of the scores on an axis of the
\* cases at the positions in S
RECURSIVE SumOver(_, _)
SumOver(S, axis) ==
    IF S = {} THEN 0
    ELSE LET i == CHOOSE j \in S : TRUE IN AxisScore(i, axis) + SumOver(S \ {i}, axis)
IsMeanOver(h, S, axis) ==
    /\ S # {}
    /\ 2 * (h * Cardinality(S) - SumOver(S, axis)) <= Cardinality(S)
    /\ 2 * (SumOver(S, axis) - h * Cardinality(S)) <= Cardinality(S)

\* The summary counts the cases and the passed cases of each group
GroupCountsReported ==
    /\ Summary.tool_call_tests = Cardinality(Group(TRUE))
    /\ Summary.tool_call_passed = Cardinality(Group(TRUE) \cap Passed)
    /\ Summary.non_tool_call_tests = Cardinality(Group(FALSE))
    /\ Summary.non_tool_call_passed = Cardinality(Group(FALSE) \cap Passed)

(* C25 as claimed: the report of run_all_tests partitions the evaluated     *)
(* cases into the group that required a tool call and the group that did    *)
(* not, and reports for each group its pass count and its mean series-id    *)
(* score and mean date-range score, each mean being taken over the cases of *)
(* that group only.  The report has one mean per axis, so each of them has  *)
(* to be the mean of one group (over its cases, or over its passed cases).  *)
C25_MeansAreTakenPerGroup ==
    (Reported /\ Summary.present) =>
        /\ GroupCountsReported
        /\ \A axis \in {"series_id", "date_range"} :
              LET h == IF axis = "series_id" THEN Summary.avg_series_id_score
                       ELSE Summary.avg_date_range_score
              IN  \E required \in BOOLEAN :
                      \/ IsMeanOver(h, Group(required), axis)
                      \/ IsMeanOver(h, Group(required) \cap Passed, axis)

(* C25 as amended: when at least one case passed, the report gives for each *)
(* of the two groups the number of its cases and of its passed cases, and   *)
(* one mean series-id score, one mean date-range score and one mean overall *)
(* score, each taken over the passed cases of both groups together and      *)
(* rounded to two decimals; failed cases are in no mean.  When no case      *)
(* passed the report has no summary.                                        *)
C25_MeansAreTakenOverAllPassedCases ==
    Reported =>
        IF Passed = {} THEN ~Summary.present
        ELSE /\ Summary.present
             /\ GroupCountsReported
             /\ Summary.total_tests = Len(args.test_cases)
             /\ Summary.successful_tests = Cardinality(Passed)
             /\ Summary.failed_tests = Len(args.test_cases) - Cardinality(Passed)
             /\ IsMeanOver(Summary.avg_series_id_score, Passed, "series_id")
             /\ IsMeanOver(Summary.avg_date_range_score, Passed, "date_range")
             /\ IsMeanOver(Summary.avg_overall_score, Passed, "overall")

\* A passed case of each group with series-id scores 0.67 and 1.0: the one
\* mean reported is that of the two together
C25_Witness ==
    /\ Reported
    /\ Summary.present
    /\ Summary.tool_call_passed = 1
    /\ Summary.non_tool_call_passed = 1
    /\ \E i \in Group(TRUE) \cap Passed : Results[i].series_id_evaluation.score = 67
    /\ Summary.avg_series_id_score \in {83, 84}

====
